---- MODULE Spec2Model ----
(***************************************************************************)
(* A model of bashlex/normalizer.py: normalize_ast rewrites a generic      *)
(* shell syntax tree into a typed command tree.  Node objects live in an   *)
(* arena (a sequence of records, a node's identity is its index, None is   *)
(* 0).  Python strings that the code inspects character by character are   *)
(* sequences of one-character strings.  The call stack of the mutually     *)
(* recursive normalize / normalize_command is the sequence `frames`.       *)
(***************************************************************************)
EXTENDS Integers, Sequences, FiniteSets, TLC

VARIABLES ast, nodes, frames, result, out

vars == <<ast, nodes, frames, result, out>>

None == 0

(***************************************************************************)
(* Words of the vocabulary the syntax trees are drawn from.                *)
(***************************************************************************)
wFind == <<"f", "i", "n", "d">>
wLs == <<"l", "s">>
wRm == <<"r", "m">>
wXargs == <<"x", "a", "r", "g", "s">>
wFoo == <<"f", "o", "o">>
wDot == <<".">>
wX == <<"x">>
wName == <<"-", "n", "a", "m", "e">>
wPrint == <<"-", "p", "r", "i", "n", "t">>
wExec == <<"-", "e", "x", "e", "c">>
wExecdir == <<"-", "e", "x", "e", "c", "d", "i", "r">>
wOk == <<"-", "o", "k">>
wOkdir == <<"-", "o", "k", "d", "i", "r">>
wLa == <<"-", "l", "a">>
wL == <<"-", "l">>
wA == <<"-", "a">>
wO == <<"-", "o">>
wAnd == <<"-", "a", "n", "d">>
wOr == <<"-", "o", "r">>
wNot == <<"-", "n", "o", "t">>
wBang == <<"!">>
wAmpAmp == <<"&", "&">>
wBarBar == <<"|", "|">>
wLp == <<"(">>
wRp == <<")">>
wSemi == <<";">>
wPlus == <<"+">>
wBraces == <<"{", "}">>
wDashDash == <<"-", "-">>
wAll == <<"-", "-", "a", "l", "l">>
wN == <<"-", "n">>
wMinus5 == <<"-", "5">>
wD1 == <<"d", "1">>
w5k == <<"5", "k">>
w42 == <<"4", "2">>
wAB == <<"a", " ", "b">>
wHead == <<"h", "e", "a", "d">>
wGrep == <<"g", "r", "e", "p">>

Digits == {"0", "1", "2", "3", "4", "5", "6", "7", "8", "9"}

(***************************************************************************)
(* Generic syntax nodes, as the parser hands them over: kind, the word     *)
(* text with quoting removed (word), the source span cmd[pos[0]:pos[1]]    *)
(* (text), parts, and whether the node has a parts attribute at all.       *)
(***************************************************************************)
Word(w) ==
    [kind |-> "word", word |-> w, text |-> w, parts |-> <<>>, hasParts |-> TRUE]

Quoted(w) ==
    [kind |-> "word", word |-> w, text |-> <<"\"">> \o w \o <<"\"">>,
     parts |-> <<>>, hasParts |-> TRUE]

Escaped(w) ==
    [kind |-> "word", word |-> w, text |-> <<"\\">> \o w,
     parts |-> <<>>, hasParts |-> TRUE]

Command(ws) ==
    [kind |-> "command", word |-> <<>>, text |-> <<>>, parts |-> ws,
     hasParts |-> TRUE]

Compound(k, ps, hp) ==
    [kind |-> k, word |-> <<>>, text |-> <<>>, parts |-> ps, hasParts |-> hp]

PipeNode == Compound("pipe", <<>>, FALSE)

HasWord(n) == n.kind \in {"word", "assignment", "reservedword"}

(***************************************************************************)
(* Collaborators outside this file: the command registry (bash.py) and     *)
(* the grammar lookup (lookup.py).                                         *)
(***************************************************************************)
head_commands_registry == {wFind, wLs, wRm, wXargs, wHead, wGrep}

is_headcommand(w) == w \in head_commands_registry

is_double_option(w) == Len(w) >= 2 /\ w[1] = "-" /\ w[2] = "-"

get_arg_types(head) ==
    CASE head = wFind -> {"File"}
      [] head = wLs -> {"File"}
      [] head = wRm -> {"File"}
      [] head = wHead -> {"File", "Number"}
      [] head = wGrep -> {"Pattern", "File"}
      [] head = wXargs -> {"Utility"}
      [] OTHER -> {}

get_flag_arg_type(head, flag) ==
    CASE head = wFind /\ flag = wName -> "Pattern"
      [] head = wFind /\ flag \in {wExec, wExecdir, wOk, wOkdir} -> "Utility"
      [] head = wHead /\ flag = wN -> "Number"
      [] OTHER -> "None"

_NUM == <<"_", "N", "U", "M">>

_LONG_PATTERN == <<"_", "L", "O", "N", "G", "_", "P", "A", "T", "T", "E", "R", "N">>

(***************************************************************************)
(* Module-level tables and options of normalizer.py.                       *)
(***************************************************************************)
unary_logic_operators == {wBang, wNot}

binary_logic_operators == {wAnd, wOr, wBarBar, wAmpAmp, wO, wA}

shell_wrappers ==
    {<<"s", "h">>, <<"c", "s", "h">>, <<"k", "s", "h">>, <<"t", "c", "s", "h">>,
     <<"z", "s", "h">>, <<"b", "a", "s", "h">>, <<"e", "x", "e", "c">>, wXargs}

exec_flags == {wExec, wExecdir, wOk, wOkdir}

unsupported_kinds ==
    {"operator", "parameter", "redirect", "for", "if", "while", "until",
     "assignment", "function", "tilde", "heredoc"}

normalize_digits == TRUE

normalize_long_pattern == TRUE

recover_quotation_opt == TRUE

(***************************************************************************)
(* Word Normalizer.                                                        *)
(***************************************************************************)
HasDigit(w) == \E k \in 1..Len(w) : w[k] \in Digits

IsDigitWord(w) == Len(w) >= 1 /\ \A k \in 1..Len(w) : w[k] \in Digits

HasSpace(w) == \E k \in 1..Len(w) : w[k] = " "

with_quotation(node) ==
    node.text[1] = "\"" \/ node.text[Len(node.text)] = "\""

recover_quotation(node) ==
    IF with_quotation(node) THEN node.text ELSE node.word

RECURSIVE DropDigits(_)
DropDigits(w) ==
    IF w # <<>> /\ Head(w) \in Digits THEN DropDigits(Tail(w)) ELSE w

RECURSIVE SubDigits(_)
SubDigits(w) ==
    IF w = <<>> THEN <<>>
    ELSE IF Head(w) \in Digits THEN _NUM \o SubDigits(DropDigits(Tail(w)))
    ELSE <<Head(w)>> \o SubDigits(Tail(w))

normalize_word(node, kind) ==
    LET w0 == IF recover_quotation_opt THEN recover_quotation(node) ELSE node.word
        w1 == IF HasSpace(w0) /\ normalize_long_pattern THEN _LONG_PATTERN ELSE w0
        w2 == IF normalize_digits THEN SubDigits(w1) ELSE w1
    IN  IF kind = "argument" THEN w2 ELSE w0

(***************************************************************************)
(* Argument Type Resolver.  "None" is Python's None (the function falls    *)
(* off its end), "ValueError" the raise of its last branch.                *)
(***************************************************************************)
type_check(word, possible_types) ==
    IF word \in {wPlus, wSemi, wBraces} THEN "ReservedWord"
    ELSE IF IsDigitWord(word) /\ "Number" \in possible_types THEN "Number"
    ELSE IF HasDigit(word) THEN
        IF word[Len(word)] \in {"k", "M", "G", "T", "P"} /\ "Size" \in possible_types
        THEN "Size"
        ELSE IF word[Len(word)] \in {"s", "m", "h", "d", "w"}
                /\ "Time" \in possible_types
        THEN "Time"
        ELSE "None"
    ELSE IF "File" \in possible_types THEN "File"
    ELSE IF "Pattern" \in possible_types THEN "Pattern"
    ELSE IF "Utility" \in possible_types THEN "Utility"
    ELSE "ValueError"

(***************************************************************************)
(* AST Node Model.                                                         *)
(***************************************************************************)
Node(kind, value, arg_type) ==
    [kind |-> kind, value |-> value, arg_type |-> arg_type, parent |-> None,
     lsb |-> None, rsb |-> None, children |-> <<>>]

getNumChildren(T, n) == Len(T[n].children)

getRightChild(T, n) ==
    IF Len(T[n].children) >= 1 THEN T[n].children[Len(T[n].children)] ELSE None

IndexOf(s, x) ==
    IF \E k \in 1..Len(s) : s[k] = x
    THEN CHOOSE k \in 1..Len(s) : s[k] = x /\ \A m \in 1..(k - 1) : s[m] # x
    ELSE 0

RemoveAt(s, k) == SubSeq(s, 1, k - 1) \o SubSeq(s, k + 1, Len(s))

InsertAt(s, k, x) == SubSeq(s, 1, k - 1) \o <<x>> \o SubSeq(s, k, Len(s))

Contains(s, x) == \E k \in 1..Len(s) : s[k] = x

removeChild(T, p, c) ==
    [T EXCEPT ![p].children = RemoveAt(@, IndexOf(@, c))]

\* make_parentchild leaving the child's parent field as it was
make_parentchild_keeping_parent(T, p, c) ==
    [T EXCEPT ![p].children = Append(@, c)]

make_parentchild(T, p, c) ==
    [T EXCEPT ![p].children = Append(@, c), ![c].parent = p]

make_sibling(T, l, r) ==
    LET T1 == IF l # None THEN [T EXCEPT ![l].rsb = r] ELSE T
    IN  IF r # None THEN [T1 EXCEPT ![r].lsb = l] ELSE T1

attach_to_tree(T, n, p) ==
    LET l == getRightChild(T, p)
        T1 == [T EXCEPT ![n].parent = p, ![n].lsb = l, ![p].children = Append(@, n)]
    IN  IF l # None THEN [T1 EXCEPT ![l].rsb = n] ELSE T1

replaceChild(T, p, child, new_child) ==
    LET T1 == [T EXCEPT ![new_child].parent = T[child].parent]
        index == IndexOf(T1[p].children, child)
        T2 == [T1 EXCEPT ![p].children = InsertAt(RemoveAt(@, index), index, new_child)]
        T3 == make_sibling(T2, T2[child].lsb, new_child)
    IN  make_sibling(T3, new_child, T3[child].rsb)

substituteParentheses(T, p, lp, rp, new_child) ==
    LET T1 == [T EXCEPT ![new_child].parent = T[rp].parent]
        T2 == make_sibling(T1, T1[lp].lsb, new_child)
        T3 == make_sibling(T2, new_child, T2[rp].rsb)
        index == IndexOf(T3[p].children, lp)
        T4 == removeChild(removeChild(T3, p, lp), p, rp)
    IN  [T4 EXCEPT ![p].children = InsertAt(@, index, new_child)]

RECURSIVE getHeadCommand(_, _)
getHeadCommand(T, n) ==
    IF T[n].kind = "headcommand" THEN n
    ELSE IF T[n].parent = None THEN None
    ELSE getHeadCommand(T, T[n].parent)

(***************************************************************************)
(* The interpreter state threaded through one step: the arena, the call    *)
(* stack and the exception raised (the empty string when none is).  A      *)
(* frame is one activation of normalize_command, or one `for child in      *)
(* node.parts` loop of normalize.                                          *)
(***************************************************************************)
Raise(st, e) == [st EXCEPT !.exc = IF st.exc = "" THEN e ELSE st.exc]

SetNodes(st, T) == [st EXCEPT !.nodes = T]

AttachNew(st, rec, parent) ==
    SetNodes(st, attach_to_tree(Append(st.nodes, rec), Len(st.nodes) + 1, parent))

CommandFrame_recording_current(parts, current, ret) ==
    [fn |-> "normalize_command", parts |-> parts, i |-> 1,
     attach_point |-> current, END_OF_OPTIONS |-> FALSE,
     head_commands |-> <<current>>, unary_logic_ops |-> <<>>, binary_logic_ops |-> <<>>,
     unprocessed_unary_logic_ops |-> <<>>, unprocessed_binary_logic_ops |-> <<>>,
     parentheses_attach_points |-> <<>>, pc |-> "scan", j |-> 0, k |-> 1,
     stack |-> <<>>, depth |-> 0, ret |-> ret]

CommandFrame(parts, current, ret) ==
    [fn |-> "normalize_command", parts |-> parts, i |-> 1,
     attach_point |-> current, END_OF_OPTIONS |-> FALSE,
     head_commands |-> <<>>, unary_logic_ops |-> <<>>, binary_logic_ops |-> <<>>,
     unprocessed_unary_logic_ops |-> <<>>, unprocessed_binary_logic_ops |-> <<>>,
     parentheses_attach_points |-> <<>>, pc |-> "scan", j |-> 0, k |-> 1,
     stack |-> <<>>, depth |-> 0, ret |-> ret]

LoopFrame(fn, parts, current) ==
    [fn |-> fn, parts |-> parts, i |-> 1, current |-> current]

Push(st, frame) == [st EXCEPT !.frames = Append(@, frame)]

Pop(st) == [st EXCEPT !.frames = SubSeq(@, 1, Len(@) - 1)]

RECURSIVE normalize(_, _, _, _, _)
normalize(st, node, current, node_kind, arg_type) ==
    IF node.kind = "word" THEN
        IF node.parts # <<>> THEN
            IF node.parts[1].kind = "processsubstitution" THEN
                IF Contains(node.word, ">") THEN
                    Push(AttachNew(st, Node("processsubstitution", <<">">>, ""), current),
                         LoopFrame("parts_loop", node.parts, Len(st.nodes) + 1))
                ELSE IF Contains(node.word, "<") THEN
                    Push(AttachNew(st, Node("processsubstitution", <<"<">>, ""), current),
                         LoopFrame("parts_loop", node.parts, Len(st.nodes) + 1))
                ELSE st
            ELSE IF node.parts[1].kind = "commandsubstitution" THEN
                Push(AttachNew(st, Node("commandsubstitution", <<>>, ""), current),
                     LoopFrame("parts_loop", node.parts, Len(st.nodes) + 1))
            ELSE IF node.parts[1].kind \in {"parameter", "tilde"} THEN
                AttachNew(st, Node(node_kind, normalize_word(node, "argument"), arg_type),
                          current)
            ELSE Push(st, LoopFrame("parts_loop", node.parts, current))
        ELSE
            AttachNew(st, Node(node_kind, normalize_word(node, node_kind), arg_type),
                      current)
    ELSE IF node.kind = "pipeline" THEN
        LET st1 == AttachNew(st, Node("pipeline", <<>>, ""), current)
        IN  IF Len(node.parts) % 2 = 0 THEN Raise(st1, "SystemExit")
            ELSE Push(st1, LoopFrame("pipeline_loop", node.parts, Len(st1.nodes)))
    ELSE IF node.kind = "list" THEN
        IF Len(node.parts) > 2 THEN Raise(st, "ValueError")
        ELSE IF Len(node.parts) = 0 THEN Raise(st, "IndexError")
        ELSE normalize(st, node.parts[1], current, "", "")
    ELSE IF node.kind \in {"commandsubstitution", "processsubstitution"} THEN
        normalize(st, node.command, current, "", "")
    ELSE IF node.kind = "command" THEN
        Push(st, CommandFrame(node.parts, current, "normalize"))
    ELSE IF node.hasParts THEN
        Push(st, LoopFrame("parts_loop", node.parts, current))
    ELSE IF node.kind \in unsupported_kinds THEN Raise(st, "ValueError")
    ELSE st

(***************************************************************************)
(* normalize_command: the helpers of its scan.  fi is the index of the     *)
(* activation's frame in st.frames.                                        *)
(***************************************************************************)
SetAttachPoint(st, fi, ap) == [st EXCEPT !.frames[fi].attach_point = ap]

is_unary_logic_op(T, node, parent) ==
    IF node.word = wBang
    THEN parent # None /\ T[parent].kind = "headcommand" /\ T[parent].value = wFind
    ELSE node.word \in unary_logic_operators

UnderFind(T, parent) ==
    parent # None /\ T[parent].kind = "headcommand" /\ T[parent].value = wFind

\* is_binary_logic_op without the test of the head command
is_binary_logic_op_any_head(T, node, parent) ==
    node.word \in binary_logic_operators

is_binary_logic_op(T, node, parent) ==
    IF node.word = wO THEN UnderFind(T, parent)
    ELSE IF node.word = wA THEN UnderFind(T, parent)
    ELSE node.word \in binary_logic_operators

\* the word is_binary_logic_op leaves in node.word
binary_logic_word(T, node, parent) ==
    IF node.word = wO /\ UnderFind(T, parent) THEN wOr
    ELSE IF node.word = wA /\ UnderFind(T, parent) THEN wAnd
    ELSE node.word

RECURSIVE find_flag_attach_point(_, _)
find_flag_attach_point(T, attach_point) ==
    IF attach_point = None THEN None
    ELSE IF T[attach_point].kind = "flag"
    THEN find_flag_attach_point(T, T[attach_point].parent)
    ELSE IF T[attach_point].kind = "headcommand" THEN attach_point
    ELSE IF T[attach_point].kind \in {"unarylogicop", "binarylogicop"}
    THEN attach_point
    ELSE None

RECURSIVE split_flags(_, _, _, _)
split_flags(st, node, options, attach_point) ==
    IF options = <<>> THEN st
    ELSE split_flags(
             normalize(st, [node EXCEPT !.word = <<"-", Head(options)>>],
                       attach_point, "flag", ""),
             node, Tail(options), attach_point)

attach_option(st, fi, node, attach_point0) ==
    LET attach_point == find_flag_attach_point(st.nodes, attach_point0)
    IN  IF attach_point = None THEN Raise(st, "ValueError")
        ELSE
          LET single ==
                  \/ is_double_option(node.word)
                  \/ node.word \in unary_logic_operators
                  \/ node.word \in binary_logic_operators
                  \/ st.nodes[attach_point].value = wFind
                  \/ Len(node.word) <= 1
              options == Tail(node.word)
              st1 ==
                  IF single THEN normalize(st, node, attach_point, "flag", "")
                  ELSE IF node.word[1] # "-" THEN Raise(st, "AssertionError")
                  ELSE IF Len(options) = 1
                  THEN normalize(st, node, attach_point, "flag", "")
                  ELSE split_flags(st, node, options, attach_point)
          IN  IF st1.exc # "" THEN st1
              ELSE SetAttachPoint(st1, fi, getRightChild(st1.nodes, attach_point))

attach_argument(st, node, attach_point0) ==
    LET T == st.nodes
        ap1 == IF T[attach_point0].kind = "flag" /\ getNumChildren(T, attach_point0) >= 1
               THEN T[attach_point0].parent ELSE attach_point0
    IN  IF T[ap1].kind = "flag" THEN
            LET head_cmd == getHeadCommand(T, ap1)
                arg_type == get_flag_arg_type(T[head_cmd].value, T[ap1].value)
            IN  IF head_cmd = None THEN Raise(st, "AttributeError")
                ELSE IF arg_type = "None"
                THEN normalize(st, node, head_cmd, "argument", arg_type)
                ELSE normalize(st, node, ap1, "argument", arg_type)
        ELSE IF T[ap1].kind = "headcommand" THEN
            LET arg_type == type_check(node.word, get_arg_types(T[ap1].value))
            IN  IF arg_type = "ValueError" THEN Raise(st, "ValueError")
                ELSE normalize(st, node, ap1, "argument", arg_type)
        ELSE normalize(st, node, ap1, "argument", "Unknown")

(***************************************************************************)
(* One iteration of the scan `while i < len(node.parts)`.                  *)
(***************************************************************************)
Min(S) == CHOOSE x \in S : \A y \in S : x <= y

StartsWithDash(w) == Len(w) >= 1 /\ w[1] = "-"

\* embed_exec treating a missing terminator as fatal
embed_exec_requiring_terminator(st, fi) ==
    LET f == st.frames[fi]
        js == {j \in f.i..Len(f.parts) :
                   HasWord(f.parts[j]) /\ f.parts[j].word \in {wSemi, wPlus}}
        j == IF js # {} THEN Min(js) ELSE Len(f.parts)
        new_parts == SelectSeq(SubSeq(f.parts, f.i, j - 1), HasWord)
    IN  IF js = {} THEN Raise(st, "ValueError")
        ELSE Push([st EXCEPT !.frames[fi].j = j],
                  CommandFrame(new_parts, f.attach_point, "exec_term"))

embed_exec(st, fi) ==
    LET f == st.frames[fi]
        js == {j \in f.i..Len(f.parts) :
                   HasWord(f.parts[j]) /\ f.parts[j].word \in {wSemi, wPlus}}
        subcommand_added == js # {}
        j == IF subcommand_added THEN Min(js) ELSE Len(f.parts)
        new_parts ==
            SelectSeq(SubSeq(f.parts, f.i, IF subcommand_added THEN j - 1 ELSE j),
                      HasWord)
    IN  Push([st EXCEPT !.frames[fi].j = j],
             CommandFrame(new_parts, f.attach_point,
                          IF subcommand_added THEN "exec_term" ELSE "exec_noterm"))

scan_part(st, fi) ==
    LET f == st.frames[fi]
        child == f.parts[f.i]
        T == st.nodes
        attach_point == f.attach_point
        Adv(s) == [s EXCEPT !.frames[fi].i = @ + 1]
    IN
    IF child.kind = "word" THEN
        IF child.word = wDashDash THEN
            Adv([st EXCEPT !.frames[fi].END_OF_OPTIONS = TRUE])
        ELSE IF child.word \in unary_logic_operators THEN
            LET ap == find_flag_attach_point(T, attach_point)
            IN  IF ap = None THEN Raise(st, "ValueError")
                ELSE IF is_unary_logic_op(T, child, ap) THEN
                    LET st1 == AttachNew(st, Node("unarylogicop", child.word, ""), ap)
                    IN  Adv([st1 EXCEPT
                                !.frames[fi].attach_point = ap,
                                !.frames[fi].unary_logic_ops = Append(@, Len(st1.nodes))])
                ELSE Adv(attach_option(st, fi, child, ap))
        ELSE IF child.word \in binary_logic_operators THEN
            LET ap == find_flag_attach_point(T, attach_point)
            IN  IF ap = None THEN Raise(st, "ValueError")
                ELSE IF is_binary_logic_op(T, child, ap) THEN
                    LET st1 == AttachNew(
                                   st,
                                   Node("binarylogicop", binary_logic_word(T, child, ap), ""),
                                   ap)
                    IN  Adv([st1 EXCEPT
                                !.frames[fi].attach_point = ap,
                                !.frames[fi].binary_logic_ops = Append(@, Len(st1.nodes))])
                ELSE Adv(attach_option(st, fi, child, ap))
        ELSE IF /\ is_headcommand(child.word)
                /\ ~with_quotation(child)
                /\ (T[attach_point].kind # "headcommand"
                    \/ T[attach_point].value \in shell_wrappers) THEN
            IF f.i > 1 THEN
                IF T[attach_point].kind = "flag" THEN
                    IF T[attach_point].value \in exec_flags THEN embed_exec(st, fi)
                    ELSE Adv(attach_argument(st, child, attach_point))
                ELSE IF T[attach_point].kind = "headcommand" THEN
                    Push(st, CommandFrame(SubSeq(f.parts, f.i, Len(f.parts)),
                                          attach_point, "nested"))
                ELSE Adv(st)
            ELSE
                LET st1 == normalize(st, child, attach_point, "headcommand", "")
                    rc == getRightChild(st1.nodes, attach_point)
                IN  Adv([st1 EXCEPT !.frames[fi].attach_point = rc,
                                    !.frames[fi].head_commands = Append(@, rc)])
        ELSE IF StartsWithDash(child.word) /\ ~f.END_OF_OPTIONS THEN
            IF T[attach_point].kind = "flag" /\ HasDigit(child.word) THEN
                LET head_cmd == getHeadCommand(T, attach_point)
                    arg_type == get_flag_arg_type(T[head_cmd].value, T[attach_point].value)
                IN  IF head_cmd = None THEN Raise(st, "AttributeError")
                    ELSE IF arg_type # "None" /\ getNumChildren(T, attach_point) = 0
                    THEN Adv(normalize(st, child, attach_point, "argument", arg_type))
                    ELSE Adv(attach_option(st, fi, child, attach_point))
            ELSE Adv(attach_option(st, fi, child, attach_point))
        ELSE
            IF child.word = wLp THEN
                Adv(attach_argument(
                        [st EXCEPT !.frames[fi].parentheses_attach_points =
                                       Append(@, attach_point)],
                        child, attach_point))
            ELSE IF child.word = wRp THEN
                IF f.parentheses_attach_points = <<>> THEN Raise(st, "IndexError")
                ELSE
                    LET paps == f.parentheses_attach_points
                        ap == paps[Len(paps)]
                    IN  Adv(attach_argument(
                                [st EXCEPT
                                    !.frames[fi].parentheses_attach_points =
                                        SubSeq(paps, 1, Len(paps) - 1),
                                    !.frames[fi].attach_point = ap],
                                child, ap))
            ELSE Adv(attach_argument(st, child, attach_point))
    ELSE IF child.kind = "assignment" THEN
        Adv(normalize(st, child, attach_point, "assignment", ""))
    ELSE Adv(normalize(st, child, attach_point, "", ""))

(***************************************************************************)
(* The fix-up passes over the recorded operators.                          *)
(***************************************************************************)
adjust_unary_operators(st, fi, node) ==
    LET T == st.nodes
        rsb == T[node].rsb
    IN  IF rsb = None THEN st
        ELSE IF T[rsb].value = wLp THEN
            [st EXCEPT !.frames[fi].unprocessed_unary_logic_ops = Append(@, node)]
        ELSE IF ~Contains(T[T[node].parent].children, rsb) THEN Raise(st, "ValueError")
        ELSE
            LET T1 == make_sibling(T, node, T[rsb].rsb)
                T2 == removeChild(T1, T1[node].parent, rsb)
                T3 == [T2 EXCEPT ![rsb].parent = node, ![rsb].lsb = None,
                                 ![rsb].rsb = None]
            IN  SetNodes(st, [T3 EXCEPT ![node].children = Append(@, rsb)])

resolve_single_child(st, node) ==
    LET T == st.nodes
        p == T[node].parent
    IN  IF /\ T[p].kind = "binarylogicop"
           /\ T[p].value = wAnd
           /\ getNumChildren(T, p) = 1
        THEN IF T[p].parent = None THEN Raise(st, "AttributeError")
             ELSE IF ~Contains(T[T[p].parent].children, p) THEN Raise(st, "ValueError")
             ELSE SetNodes(st, replaceChild(T, T[p].parent, p, node))
        ELSE st

adjust_binary_operators(st, fi, node) ==
    LET T == st.nodes
        rsb == T[node].rsb
        lsb == T[node].lsb
        p == T[node].parent
    IN  IF rsb = None \/ lsb = None THEN Raise(st, "SystemExit")
        ELSE IF T[rsb].value = wLp \/ T[lsb].value = wRp THEN
            [st EXCEPT !.frames[fi].unprocessed_binary_logic_ops = Append(@, node)]
        ELSE IF T[rsb].value = wRp \/ T[lsb].value = wLp THEN Raise(st, "AssertionError")
        ELSE IF ~Contains(T[p].children, rsb) \/ ~Contains(T[p].children, lsb)
        THEN Raise(st, "ValueError")
        ELSE
            LET T1 == make_sibling(T, node, T[rsb].rsb)
                T2 == make_sibling(T1, T1[lsb].lsb, node)
                T3 == removeChild(removeChild(T2, p, rsb), p, lsb)
                T4 == [T3 EXCEPT ![rsb].rsb = None, ![lsb].lsb = None]
                merged ==
                    LET lc == T4[lsb].children
                        M0 == [T4 EXCEPT
                                  ![node].children = @ \o lc \o <<rsb>>,
                                  ![rsb].parent = node]
                        M1 == [n \in 1..Len(M0) |->
                                  IF Contains(lc, n) THEN [M0[n] EXCEPT !.parent = node]
                                  ELSE M0[n]]
                    IN  make_sibling(M1, getRightChild(T4, lsb), rsb)
                nested ==
                    make_sibling(
                        make_parentchild(make_parentchild(T4, node, lsb), node, rsb),
                        lsb, rsb)
                T5 == IF T4[lsb].kind = "binarylogicop" /\ T4[lsb].value = T4[node].value
                      THEN merged ELSE nested
            IN  resolve_single_child(SetNodes(st, T5), node)

\* organize_buffer attaching the buffer back to front
organize_buffer_reversed(T, buffer) ==
    LET norm_node == Len(T) + 1
        T0 == Append(T, Node("binarylogicop", wAnd, ""))
        attach[k \in 0..Len(buffer)] ==
            IF k = 0 THEN T0
            ELSE attach_to_tree(attach[k - 1], buffer[Len(buffer) + 1 - k], norm_node)
    IN  attach[Len(buffer)]

organize_buffer(T, buffer) ==
    LET norm_node == Len(T) + 1
        T0 == Append(T, Node("binarylogicop", wAnd, ""))
        attach[k \in 0..Len(buffer)] ==
            IF k = 0 THEN T0 ELSE attach_to_tree(attach[k - 1], buffer[k], norm_node)
    IN  attach[Len(buffer)]

RECURSIVE removeChildren(_, _, _)
removeChildren(T, p, cs) ==
    IF cs = <<>> THEN T ELSE removeChildren(removeChild(T, p, Head(cs)), p, Tail(cs))

(***************************************************************************)
(* One iteration of the parenthesis scan `while i <                        *)
(* head_command.getNumChildren()`.                                         *)
(***************************************************************************)
desugar_child(st, fi) ==
    LET f == st.frames[fi]
        T == st.nodes
        head_command == f.head_commands[1]
        child == T[head_command].children[f.i]
        Adv(s) == [s EXCEPT !.frames[fi].i = @ + 1]
    IN
    IF T[child].value = wLp THEN
        Adv([st EXCEPT !.frames[fi].stack = Append(@, child),
                       !.frames[fi].depth = @ + 1])
    ELSE IF T[child].value = wRp THEN
        IF f.depth < 1 THEN Raise(st, "AssertionError")
        ELSE
            LET ms == {m \in 1..Len(f.stack) : T[f.stack[m]].value = wLp}
                m == CHOOSE x \in ms : \A y \in ms : y <= x
                buffer == SubSeq(f.stack, m + 1, Len(f.stack))
                lparenth == f.stack[m]
                rparenth == child
                T1 == removeChildren(T, head_command, buffer)
                T2 == IF Len(buffer) > 1 THEN organize_buffer(T1, buffer) ELSE T1
                new_child == IF Len(buffer) > 1 THEN Len(T2) ELSE buffer[1]
                index == IndexOf(T2[head_command].children, lparenth)
                T3 == substituteParentheses(T2, head_command, lparenth, rparenth,
                                            new_child)
                stack1 == SubSeq(f.stack, 1, m - 1)
            IN  IF ms = {} \/ buffer = <<>> THEN Raise(st, "IndexError")
                ELSE IF T[lparenth].parent # T[rparenth].parent
                THEN Raise(st, "AssertionError")
                ELSE
                    Adv([SetNodes(st, T3) EXCEPT
                            !.frames[fi].i = index,
                            !.frames[fi].depth = @ - 1,
                            !.frames[fi].stack =
                                IF f.depth - 1 >= 1 THEN Append(stack1, new_child)
                                ELSE stack1])
    ELSE IF f.depth >= 1 THEN
        Adv([st EXCEPT !.frames[fi].stack = Append(@, child)])
    ELSE Adv(st)

(***************************************************************************)
(* Control flow of one normalize_command activation after its scan: the    *)
(* loops over the recorded operators, the parenthesis scan, the deferred   *)
(* loops, the final assertions.  Advance moves an activation past the      *)
(* loops that have nothing left to visit.                                  *)
(***************************************************************************)
RECURSIVE Advance(_, _)
Advance(T, f) ==
    IF f.pc = "unary" /\ f.k > Len(f.unary_logic_ops)
    THEN Advance(T, [f EXCEPT !.pc = "binary", !.k = 1])
    ELSE IF f.pc = "binary" /\ f.k > Len(f.binary_logic_ops)
    THEN Advance(T, [f EXCEPT !.pc = "paren", !.i = 1])
    ELSE IF f.pc = "paren" /\ f.i > getNumChildren(T, f.head_commands[1])
    THEN Advance(T, [f EXCEPT !.pc = "unary2", !.k = 1])
    ELSE IF f.pc = "unary2" /\ f.k > Len(f.unprocessed_unary_logic_ops)
    THEN Advance(T, [f EXCEPT !.pc = "binary2", !.k = 1])
    ELSE IF f.pc = "binary2" /\ f.k > Len(f.unprocessed_binary_logic_ops)
    THEN [f EXCEPT !.pc = "final"]
    ELSE f

AdvanceTop(st, fi) ==
    IF st.exc # "" THEN st
    ELSE [st EXCEPT !.frames[fi] = Advance(st.nodes, @)]

\* Return without `attach_point = attach_point.parent` after an embedded command
Return_keeps_attach_point(st) ==
    LET callee == st.frames[Len(st.frames)]
        st1 == Pop(st)
        fi == Len(st1.frames)
        f == st1.frames[fi]
        attach_point == f.attach_point
        T == st1.nodes
    IN  IF callee.ret = "exec_term" THEN
            [SetNodes(st1, [T EXCEPT ![attach_point].value =
                                         @ \o <<":", ":">> \o f.parts[f.j].word])
                EXCEPT !.frames[fi].i = f.j + 1]
        ELSE IF callee.ret = "exec_noterm" THEN
            LET new_node == [f.parts[Len(f.parts)] EXCEPT !.word = <<"\\", ";">>]
                st2 == normalize(st1, new_node, attach_point, "argument", "")
            IN  [st2 EXCEPT !.frames[fi].i = f.j + 1]
        ELSE IF callee.ret = "nested" THEN
            [st1 EXCEPT !.frames[fi].i = Len(f.parts) + 1]
        ELSE st1

\* the top activation returns; its caller goes on after the call
Return(st) ==
    LET callee == st.frames[Len(st.frames)]
        st1 == Pop(st)
        fi == Len(st1.frames)
        f == st1.frames[fi]
        attach_point == f.attach_point
        T == st1.nodes
    IN  IF callee.ret = "exec_term" THEN
            [SetNodes(st1, [T EXCEPT ![attach_point].value =
                                         @ \o <<":", ":">> \o f.parts[f.j].word])
                EXCEPT !.frames[fi].i = f.j + 1,
                       !.frames[fi].attach_point = T[attach_point].parent]
        ELSE IF callee.ret = "exec_noterm" THEN
            LET new_node == [f.parts[Len(f.parts)] EXCEPT !.word = <<"\\", ";">>]
                st2 == normalize(st1, new_node, attach_point, "argument", "")
            IN  [st2 EXCEPT !.frames[fi].i = f.j + 1,
                            !.frames[fi].attach_point = T[attach_point].parent]
        ELSE IF callee.ret = "nested" THEN
            [st1 EXCEPT !.frames[fi].i = Len(f.parts) + 1]
        ELSE st1

\* scan_end going to the binary operators at once, the loop over the
\* recorded unary operators left out
scan_end_without_unary_pass(st, fi) ==
    LET f == st.frames[fi]
    IN  IF Len(f.parentheses_attach_points) # 0 THEN Raise(st, "AssertionError")
        ELSE IF Len(f.head_commands) = 0 THEN Return(st)
        ELSE IF Len(f.head_commands) > 1 THEN Raise(st, "SystemExit")
        ELSE AdvanceTop([st EXCEPT !.frames[fi].pc = "binary", !.frames[fi].k = 1], fi)

scan_end(st, fi) ==
    LET f == st.frames[fi]
    IN  IF Len(f.parentheses_attach_points) # 0 THEN Raise(st, "AssertionError")
        ELSE IF Len(f.head_commands) = 0 THEN Return(st)
        ELSE IF Len(f.head_commands) > 1 THEN Raise(st, "SystemExit")
        ELSE AdvanceTop([st EXCEPT !.frames[fi].pc = "unary", !.frames[fi].k = 1], fi)

command_end(st, fi) ==
    LET f == st.frames[fi]
    IN  IF Len(f.stack) # 0 \/ f.depth # 0 THEN Raise(st, "AssertionError")
        ELSE Return(st)

\* one iteration of the loops of normalize over node.parts
pipeline_part(st, fi) ==
    LET f == st.frames[fi]
        child == f.parts[f.i]
        st1 == [st EXCEPT !.frames[fi].i = @ + 1]
    IN  IF child.kind = "command" THEN normalize(st1, child, f.current, "", "")
        ELSE IF child.kind = "pipe" THEN st1
        ELSE Raise(st, "ValueError")

parts_part(st, fi) ==
    LET f == st.frames[fi]
    IN  normalize([st EXCEPT !.frames[fi].i = @ + 1], f.parts[f.i], f.current, "", "")

(***************************************************************************)
(* normalize_ast: what the caller gets.  ValueError is caught and None is  *)
(* returned; an assert that fails inside normalize_command is raised again *)
(* by normalize with a message, caught, and None is returned; anything     *)
(* else leaves normalize_ast as raised.                                    *)
(***************************************************************************)
Outcome(exc) == IF exc \in {"ValueError", "AssertionError"} THEN "None" ELSE exc

Here == [nodes |-> nodes, frames |-> frames, exc |-> ""]

Commit(st) ==
    /\ nodes' = st.nodes
    /\ IF st.exc # ""
       THEN frames' = <<>> /\ result' = Outcome(st.exc)
       ELSE frames' = st.frames /\ UNCHANGED result
    /\ UNCHANGED <<ast, out>>

top == Len(frames)

InCommand(pc) ==
    /\ result = "running"
    /\ frames # <<>>
    /\ frames[top].fn = "normalize_command"
    /\ frames[top].pc = pc

MaxDeferred == 8

NormalizeAst ==
    /\ result = "init"
    /\ LET st == normalize(Here, ast, 1, "", "")
       IN  /\ nodes' = st.nodes
           /\ IF st.exc # ""
              THEN frames' = <<>> /\ result' = Outcome(st.exc)
              ELSE frames' = st.frames /\ result' = "running"
    /\ UNCHANGED <<ast, out>>

ScanStep ==
    /\ InCommand("scan")
    /\ frames[top].i <= Len(frames[top].parts)
    /\ Commit(scan_part(Here, top))

ScanEnd ==
    /\ InCommand("scan")
    /\ frames[top].i > Len(frames[top].parts)
    /\ Commit(scan_end(Here, top))

UnaryFixup ==
    /\ InCommand("unary")
    /\ Commit(AdvanceTop(
           adjust_unary_operators([Here EXCEPT !.frames[top].k = @ + 1], top,
                                  frames[top].unary_logic_ops[frames[top].k]),
           top))

BinaryFixup ==
    /\ InCommand("binary")
    /\ Commit(AdvanceTop(
           adjust_binary_operators([Here EXCEPT !.frames[top].k = @ + 1], top,
                                   frames[top].binary_logic_ops[frames[top].k]),
           top))

Desugar ==
    /\ InCommand("paren")
    /\ Commit(AdvanceTop(desugar_child(Here, top), top))

DeferredUnary ==
    /\ InCommand("unary2")
    /\ Len(frames[top].unprocessed_unary_logic_ops) <= MaxDeferred
    /\ Commit(AdvanceTop(
           adjust_unary_operators([Here EXCEPT !.frames[top].k = @ + 1], top,
                                  frames[top].unprocessed_unary_logic_ops[frames[top].k]),
           top))

DeferredBinary ==
    /\ InCommand("binary2")
    /\ Len(frames[top].unprocessed_binary_logic_ops) <= MaxDeferred
    /\ Commit(AdvanceTop(
           adjust_binary_operators([Here EXCEPT !.frames[top].k = @ + 1], top,
                                   frames[top].unprocessed_binary_logic_ops[frames[top].k]),
           top))

CommandEnd ==
    /\ InCommand("final")
    /\ Commit(command_end(Here, top))

PipelineLoop ==
    /\ result = "running"
    /\ frames # <<>>
    /\ frames[top].fn = "pipeline_loop"
    /\ IF frames[top].i > Len(frames[top].parts)
       THEN Commit(Pop(Here))
       ELSE Commit(pipeline_part(Here, top))

PartsLoop ==
    /\ result = "running"
    /\ frames # <<>>
    /\ frames[top].fn = "parts_loop"
    /\ IF frames[top].i > Len(frames[top].parts)
       THEN Commit(Pop(Here))
       ELSE Commit(parts_part(Here, top))

ReturnTree ==
    /\ result = "running"
    /\ frames = <<>>
    /\ result' = "tree"
    /\ UNCHANGED <<ast, nodes, frames, out>>

(***************************************************************************)
(* The syntax trees normalize_ast is run on: the commands its              *)
(* documentation works through, and every command of a few bounded         *)
(* families of word sequences.                                             *)
(***************************************************************************)
SeqsUpTo(S, n) == UNION {[1..k -> S] : k \in 0..n}

CommandSubstitutionWord(cmd) ==
    [kind |-> "word", word |-> <<"$", "(", ")">>, text |-> <<"$", "(", ")">>,
     parts |-> <<[kind |-> "commandsubstitution", word |-> <<>>, text |-> <<>>,
                  parts |-> <<>>, hasParts |-> FALSE, command |-> cmd]>>,
     hasParts |-> TRUE]

ExLsLa == Command(<<Word(wLs), Word(wLa)>>)

ExFindOr ==
    Command(<<Word(wFind), Word(wDot), Word(wName), Quoted(wX), Word(wO),
              Word(wName), Quoted(wX)>>)

ExGrepO == Command(<<Word(wGrep), Word(wO), Word(wX), Word(wX)>>)

ExFindParen ==
    Command(<<Word(wFind), Word(wDot), Escaped(wLp), Word(wName), Quoted(wX),
              Word(wO), Word(wName), Quoted(wX), Escaped(wRp)>>)

ExFindExec ==
    Command(<<Word(wFind), Word(wDot), Word(wExec), Word(wRm), Word(wBraces),
              Escaped(wSemi)>>)

ExDeferred ==
    Command(<<Word(wFind), Word(wBang), Escaped(wLp), Word(wX), Escaped(wRp),
              Word(wO), Escaped(wLp), Word(wX), Word(wX), Escaped(wRp)>>)

ExPipeline ==
    Compound("pipeline",
             <<Command(<<Word(wLs), CommandSubstitutionWord(Command(<<Word(wLs)>>))>>),
               PipeNode, Command(<<Word(wXargs), Word(wRm), Word(wX)>>)>>,
             TRUE)

Examples ==
    {ExLsLa, ExFindOr, ExGrepO, ExFindParen, ExFindExec, ExDeferred, ExPipeline}

MaxFind == 4

FindWords ==
    {Word(wX), Word(wPrint), Word(wName), Word(wBang), Word(wO), Escaped(wLp),
     Escaped(wRp)}

FindCommands == {Command(<<Word(wFind)>> \o s) : s \in SeqsUpTo(FindWords, MaxFind)}

MaxParen == 6

ParenWords == {Word(wX), Word(wBang), Escaped(wLp), Escaped(wRp)}

ParenCommands == {Command(<<Word(wFind)>> \o s) : s \in SeqsUpTo(ParenWords, MaxParen)}

MaxFlags == 3

FlagHeads == {Word(wLs), Word(wHead), Word(wFind), Word(wFoo)}

FlagWords ==
    {Word(wLa), Quoted(wLa), Word(wL), Word(wAll), Word(wN), Word(wMinus5),
     Word(wX), Word(wDashDash), Word(wO), Word(wA)}

FlagCommands ==
    {Command(<<h>> \o s) : h \in FlagHeads, s \in SeqsUpTo(FlagWords, MaxFlags)}

MaxExec == 4

ExecWords ==
    {Word(wExec), Word(wOk), Word(wRm), Word(wFoo), Escaped(wSemi), Word(wPlus),
     Word(wX)}

ExecCommands == {Command(<<Word(wFind)>> \o s) : s \in SeqsUpTo(ExecWords, MaxExec)}

MaxPipe == 4

PipeParts ==
    {Command(<<Word(wLs)>>), Command(<<Word(wFoo), Word(wX)>>), PipeNode, Word(wX)}

Pipelines ==
    {Compound("pipeline", s, TRUE) : s \in SeqsUpTo(PipeParts, MaxPipe) \ {<<>>}}

MaxOps == 5

OpHeads == {Word(wFind), Word(wLs)}

OpWords == {Word(wX), Word(wPrint), Word(wO), Word(wA)}

OpCommands ==
    {Command(<<h>> \o s) : h \in OpHeads, s \in SeqsUpTo(OpWords, MaxOps)}

MaxKindParts == 2

KindParts == SeqsUpTo({Command(<<Word(wLs)>>), Word(wX)}, MaxKindParts)

UnsupportedNodes ==
    {Compound(k, ps, hp) : k \in unsupported_kinds, ps \in KindParts, hp \in BOOLEAN}

KindInputs ==
    UnsupportedNodes
        \cup {Command(<<Word(wLs), n>>) : n \in UnsupportedNodes}
        \cup {Command(<<n, Word(wLs)>>) : n \in UnsupportedNodes}

(***************************************************************************)
(* Tree Codec.  A symbol is the string KIND_value, a sequence of            *)
(* characters; to_ast splits it at its first underscore and lowers the     *)
(* kind.                                                                   *)
(***************************************************************************)
NO_EXPAND == <<"<", "N", "O", "_", "E", "X", "P", "A", "N", "D", ">">>

wRoot == <<"r", "o", "o", "t">>

Kinds ==
    {"root", "pipeline", "headcommand", "flag", "argument", "unarylogicop",
     "binarylogicop", "commandsubstitution", "processsubstitution", ""}

upper(kind) ==
    CASE kind = "root" -> <<"R", "O", "O", "T">>
      [] kind = "pipeline" -> <<"P", "I", "P", "E", "L", "I", "N", "E">>
      [] kind = "headcommand" ->
             <<"H", "E", "A", "D", "C", "O", "M", "M", "A", "N", "D">>
      [] kind = "flag" -> <<"F", "L", "A", "G">>
      [] kind = "argument" -> <<"A", "R", "G", "U", "M", "E", "N", "T">>
      [] kind = "unarylogicop" ->
             <<"U", "N", "A", "R", "Y", "L", "O", "G", "I", "C", "O", "P">>
      [] kind = "binarylogicop" ->
             <<"B", "I", "N", "A", "R", "Y", "L", "O", "G", "I", "C", "O", "P">>
      [] kind = "commandsubstitution" ->
             <<"C", "O", "M", "M", "A", "N", "D", "S", "U", "B", "S", "T", "I", "T",
               "U", "T", "I", "O", "N">>
      [] kind = "processsubstitution" ->
             <<"P", "R", "O", "C", "E", "S", "S", "S", "U", "B", "S", "T", "I", "T",
               "U", "T", "I", "O", "N">>
      [] OTHER -> <<>>

\* the kind of a symbol taken without kind.lower()
lower_forgotten(chars) == "UNKNOWN"

\* kind.lower() of the part of a symbol before the underscore
lower(chars) ==
    IF \E k \in Kinds : upper(k) = chars
    THEN CHOOSE k \in Kinds : upper(k) = chars
    ELSE "unknown"

symbol(T, n) == upper(T[n].kind) \o <<"_">> \o T[n].value

RECURSIVE to_list(_, _, _)
RECURSIVE to_list_children(_, _, _)
to_list_children(T, cs, list) ==
    IF cs = <<>> THEN list
    ELSE to_list_children(T, Tail(cs), to_list(T, Head(cs), list))

\* to_list with the terminator left out after a leaf
to_list_leaves_bare(T, node, list) ==
    IF T[node].children = <<>> THEN Append(list, symbol(T, node))
    ELSE Append(to_list_children(T, T[node].children,
                                 Append(list, symbol(T, node))),
                NO_EXPAND)

to_list(T, node, list) ==
    Append(to_list_children(T, T[node].children, Append(list, symbol(T, node))),
           NO_EXPAND)

\* one turn of the loop of to_ast; acc is the tree built so far, the current
\* node and the exception raised
to_ast_symbol(acc, sym) ==
    LET T == acc.T
        current == acc.current
        us == {k \in 1..Len(sym) : sym[k] = "_"}
        at == Min(us)
        kind == lower(SubSeq(sym, 1, at - 1))
        value == SubSeq(sym, at + 1, Len(sym))
        head_cmd == getHeadCommand(T, current)
        arg_type ==
            IF kind # "argument" THEN ""
            ELSE IF T[current].kind = "flag" THEN
                IF head_cmd = None THEN "AttributeError"
                ELSE get_flag_arg_type(T[head_cmd].value, T[current].value)
            ELSE IF T[current].kind = "headcommand" THEN
                type_check(value, get_arg_types(T[current].value))
            ELSE "Unknown"
        new == Len(T) + 1
    IN  IF acc.exc # "" \/ current = None THEN acc
        ELSE IF sym = NO_EXPAND THEN [acc EXCEPT !.current = T[current].parent]
        ELSE IF us = {} THEN [acc EXCEPT !.exc = "ValueError"]
        ELSE IF arg_type \in {"AttributeError", "ValueError"}
        THEN [acc EXCEPT !.exc = arg_type]
        ELSE [acc EXCEPT
                 !.T = attach_to_tree(Append(T, Node(kind, value, arg_type)), new,
                                      current),
                 !.current = new]

RECURSIVE to_ast_from(_, _, _)
to_ast_from(list, i, acc) ==
    IF i > Len(list) THEN acc
    ELSE to_ast_from(list, i + 1, to_ast_symbol(acc, list[i]))

to_ast(list) ==
    to_ast_from(list, 2, [T |-> <<Node("root", wRoot, "")>>, current |-> 1, exc |-> ""])

(***************************************************************************)
(* Renderer.  to_tokens_fun gives the tokens of a subtree, or the           *)
(* exception it raises; a token is a string, a sequence of characters.     *)
(***************************************************************************)
\* the characters of the model's words, in code point order
CharOrder ==
    <<" ", "!", "\"", "$", "&", "(", ")", "+", "-", ".", "0", "1", "2", "3", "4",
      "5", "6", "7", "8", "9", ":", ";", "<", ">", "A", "E", "G", "L", "M", "N",
      "O", "P", "R", "T", "U", "\\", "_", "a", "b", "c", "d", "e", "f", "g", "h",
      "i", "k", "l", "m", "n", "o", "p", "r", "s", "t", "x", "{", "|", "}">>

ord(c) == CHOOSE k \in 1..Len(CharOrder) : CharOrder[k] = c

\* a < b for Python strings
RECURSIVE StrLess(_, _)
StrLess(a, b) ==
    IF b = <<>> THEN FALSE
    ELSE IF a = <<>> THEN TRUE
    ELSE IF Head(a) = Head(b) THEN StrLess(Tail(a), Tail(b))
    ELSE ord(Head(a)) < ord(Head(b))

\* sorted(children, key=lambda x: x.value): a stable sort, here by insertion
\* of each node after the nodes whose value is not greater
RECURSIVE sorted_from(_, _, _)
sorted_from(T, cs, done) ==
    IF cs = <<>> THEN done
    ELSE LET c == Head(cs)
             k == Cardinality({m \in 1..Len(done) :
                                   ~StrLess(T[c].value, T[done[m]].value)})
         IN  sorted_from(T, Tail(cs),
                         SubSeq(done, 1, k) \o <<c>> \o SubSeq(done, k + 1, Len(done)))

sorted(T, cs) == sorted_from(T, cs, <<>>)

\* the places in a string where '::' starts
DoubleColons(w) == {k \in 1..(Len(w) - 1) : w[k] = ":" /\ w[k + 1] = ":"}

Tokens(ts) == [tokens |-> ts, exc |-> ""]

Failed(e) == [tokens |-> <<>>, exc |-> e]

Then(a, b) ==
    LET x == a
        y == b
    IN  IF x.exc # "" THEN x ELSE IF y.exc # "" THEN y
        ELSE Tokens(x.tokens \o y.tokens)

RECURSIVE to_tokens_fun(_, _, _, _, _)
RECURSIVE to_tokens_each(_, _, _, _, _, _)
\* the tokens of the nodes cs, with the token sep (a sequence of none or one
\* token) between two of them
to_tokens_each(T, cs, sep, lc, ifo, ato) ==
    IF cs = <<>> THEN Tokens(<<>>)
    ELSE IF Len(cs) = 1 THEN to_tokens_fun(T, cs[1], lc, ifo, ato)
    ELSE Then(Then(to_tokens_fun(T, cs[1], lc, ifo, ato), Tokens(sep)),
              to_tokens_each(T, Tail(cs), sep, lc, ifo, ato))

to_tokens_fun(T, n, lc, ifo, ato) ==
    LET node == T[n]
        ch == node.children
        nc == Len(ch)
        each(cs) == to_tokens_each(T, cs, <<>>, lc, ifo, ato)
        first == to_tokens_fun(T, ch[1], lc, ifo, ato)
        dc == DoubleColons(node.value)
        at == Min(dc)
    IN  IF node.kind = "root" THEN
            IF ~(lc \/ nc = 1) THEN Tokens(<<>>)
            ELSE IF lc THEN each(ch) ELSE first
        ELSE IF node.kind = "pipeline" THEN
            IF ~(lc \/ nc > 1) THEN Failed("AssertionError")
            ELSE IF lc /\ nc < 1 THEN Tokens(<<<<"|">>>>)
            ELSE IF lc /\ nc = 1 THEN first
            ELSE to_tokens_each(T, ch, <<<<"|">>>>, lc, ifo, ato)
        ELSE IF node.kind = "commandsubstitution" THEN
            IF ~(lc \/ nc = 1) THEN Failed("AssertionError")
            ELSE IF lc /\ nc < 1 THEN Tokens(<<<<"$", "(">>, <<")">>>>)
            ELSE Then(Then(Tokens(<<<<"$", "(">>>>), first), Tokens(<<<<")">>>>))
        ELSE IF node.kind = "processsubstitution" THEN
            IF ~(lc \/ nc = 1) THEN Failed("AssertionError")
            ELSE IF lc /\ nc < 1 THEN Tokens(<<node.value \o <<"(">>, <<")">>>>)
            ELSE Then(Then(Tokens(<<node.value \o <<"(">>>>), first),
                      Tokens(<<<<")">>>>))
        ELSE IF node.kind = "headcommand" THEN
            Then(Tokens(<<node.value>>), each(IF ifo THEN sorted(T, ch) ELSE ch))
        ELSE IF node.kind = "flag" THEN
            IF dc # {} THEN
                IF DoubleColons(SubSeq(node.value, at + 2, Len(node.value))) # {}
                THEN Failed("ValueError")
                ELSE Then(Then(Tokens(<<SubSeq(node.value, 1, at - 1)>>), each(ch)),
                          Tokens(<<SubSeq(node.value, at + 2, Len(node.value))>>))
            ELSE Then(Tokens(<<node.value>>), each(ch))
        ELSE IF node.kind = "binarylogicop" THEN
            IF ~(lc \/ nc > 1) THEN Failed("AssertionError")
            ELSE IF lc /\ nc < 2 THEN each(ch)
            ELSE Then(Then(Tokens(<<<<"\\", "(">>>>),
                           to_tokens_each(T, ch, <<node.value>>, lc, ifo, ato)),
                      Tokens(<<<<"\\", ")">>>>))
        ELSE IF node.kind = "unarylogicop" THEN
            IF ~(lc \/ nc = 1) THEN Failed("AssertionError")
            ELSE IF lc /\ nc < 1 THEN Tokens(<<node.value>>)
            ELSE Then(Tokens(<<node.value>>), first)
        ELSE IF node.kind = "argument" THEN
            IF ~(lc \/ nc = 0) THEN Failed("AssertionError")
            ELSE Then(Tokens(<<IF ato /\ node.arg_type # "ReservedWord"
                               THEN <<node.arg_type>> ELSE node.value>>),
                      IF lc THEN each(ch) ELSE Tokens(<<>>))
        ELSE Tokens(<<>>)

\* to_tokens rendering in strict mode whatever loose_constraints says
to_tokens_always_strict(T, node, loose_constraints, ignore_flag_order, arg_type_only) ==
    IF node = None THEN Tokens(<<>>)
    ELSE to_tokens_fun(T, node, FALSE, ignore_flag_order, arg_type_only)

to_tokens(T, node, loose_constraints, ignore_flag_order, arg_type_only) ==
    IF node = None THEN Tokens(<<>>)
    ELSE to_tokens_fun(T, node, loose_constraints, ignore_flag_order, arg_type_only)

(***************************************************************************)
(* `out` holds the call made on the module's other functions and what it   *)
(* returned; normalize_ast itself makes none.                              *)
(***************************************************************************)
NoCall == [fn |-> "none"]

InitOn(inputs) ==
    /\ ast \in inputs
    /\ nodes = <<Node("root", <<>>, "")>>
    /\ frames = <<>>
    /\ result = "init"
    /\ out = NoCall

Init == InitOn(Examples \cup FindCommands \cup ParenCommands)

Next ==
    \/ NormalizeAst
    \/ ScanStep
    \/ ScanEnd
    \/ UnaryFixup
    \/ BinaryFixup
    \/ Desugar
    \/ DeferredUnary
    \/ DeferredBinary
    \/ CommandEnd
    \/ PipelineLoop
    \/ PartsLoop
    \/ ReturnTree

Spec == Init /\ [][Next]_vars

SpecOps == InitOn(Examples \cup OpCommands) /\ [][Next]_vars

SpecKinds == InitOn(Examples \cup KindInputs) /\ [][Next]_vars

SpecFlags == InitOn(Examples \cup FlagCommands) /\ [][Next]_vars

SpecExec == InitOn(Examples \cup ExecCommands) /\ [][Next]_vars

SpecPipe == InitOn(Examples \cup Pipelines) /\ [][Next]_vars

MaxOk == 4

OkWords == {Word(wOk), Word(wPlus), Word(wRm)}

OkCommands == {Command(<<Word(wFind)>> \o s) : s \in SeqsUpTo(OkWords, MaxOk)}

SpecOperands == InitOn(Examples \cup FindCommands \cup OkCommands) /\ [][Next]_vars

(***************************************************************************)
(* The codec and the renderer run on the tree normalize_ast returned, as   *)
(* the module's main program runs them.                                    *)
(***************************************************************************)
PAD == <<"<", "P", "A", "D", ">">>

ToList ==
    /\ result = "tree"
    /\ out = NoCall
    /\ out' = [fn |-> "to_list", list |-> to_list(nodes, 1, <<>>)]
    /\ UNCHANGED <<ast, nodes, frames, result>>

ToAst ==
    /\ out.fn = "to_list"
    /\ \E list \in {out.list, Append(out.list, PAD)} :
           LET tree == to_ast(list)
           IN  out' = [fn |-> "to_ast", list |-> list, tree |-> tree.T,
                       exc |-> tree.exc]
    /\ UNCHANGED <<ast, nodes, frames, result>>

ToTokens ==
    /\ result = "tree"
    /\ out = NoCall
    /\ \E lc \in BOOLEAN, ifo \in BOOLEAN, ato \in BOOLEAN :
           out' = [fn |-> "to_tokens", loose_constraints |-> lc,
                   ignore_flag_order |-> ifo, arg_type_only |-> ato,
                   ret |-> to_tokens(nodes, 1, lc, ifo, ato)]
    /\ UNCHANGED <<ast, nodes, frames, result>>

NextCodec == Next \/ ToList \/ ToAst \/ ToTokens

MaxCodec == 4

CodecHeads == {Word(wFind), Word(wLs)}

CodecWords == {Word(wX), Word(wDot), Word(wName), Word(wPrint), Word(wO)}

CodecCommands ==
    {Command(<<h>> \o s) : h \in CodecHeads, s \in SeqsUpTo(CodecWords, MaxCodec)}

SpecCodec ==
    InitOn(Examples \cup FindCommands \cup CodecCommands) /\ [][NextCodec]_vars

(***************************************************************************)
(* Rendering a returned tree with to_command and normalizing the text      *)
(* again.  to_command joins the tokens with single spaces; normalize_ast   *)
(* strips the text, applies special_command_normalization and hands it to  *)
(* the parser.  The parser is outside this file: parse covers texts made   *)
(* of plain, backslash-escaped and double-quoted words only, and           *)
(* Parseable says which texts those are.                                   *)
(***************************************************************************)
RECURSIVE join(_)
join(tokens) ==
    IF tokens = <<>> THEN <<>>
    ELSE IF Len(tokens) = 1 THEN tokens[1]
    ELSE tokens[1] \o <<" ">> \o join(Tail(tokens))

to_command(T, node, loose_constraints, ignore_flag_order) ==
    LET r == to_tokens(T, node, loose_constraints, ignore_flag_order, FALSE)
    IN  [text |-> join(r.tokens), exc |-> r.exc]

RECURSIVE strip(_)
strip(cmd) ==
    IF cmd = <<>> THEN cmd
    ELSE IF Head(cmd) = " " THEN strip(Tail(cmd))
    ELSE IF cmd[Len(cmd)] = " " THEN strip(SubSeq(cmd, 1, Len(cmd) - 1))
    ELSE cmd

StartsWith(s, p) == Len(s) >= Len(p) /\ SubSeq(s, 1, Len(p)) = p

RECURSIVE replace(_, _, _)
replace(s, old, new) ==
    IF s = <<>> THEN s
    ELSE IF StartsWith(s, old)
         THEN new \o replace(SubSeq(s, Len(old) + 1, Len(s)), old, new)
         ELSE <<Head(s)>> \o replace(Tail(s), old, new)

\* The rewrites of sudo, of find called by its path, of a leading prompt
\* character and of tar's first argument need characters the rendered
\* vocabulary lacks; the three spelling corrections are the ones in reach.
special_command_normalization(cmd) ==
    LET c1 == replace(cmd, <<"s", "u", "d", "o">>, <<>>)
        c2 == replace(c1, <<"-", "\\", "(">>, <<"\\", "(">>)
        c3 == replace(c2, <<"-", "\\", ")">>, <<"\\", ")">>)
    IN  replace(c3, <<"\"", "\\", ")">>, <<" ", "\\", ")">>)

RECURSIVE split_words(_, _, _, _, _)
split_words(cmd, i, cur, inq, acc) ==
    IF i > Len(cmd) THEN (IF cur = <<>> THEN acc ELSE Append(acc, cur))
    ELSE LET c == cmd[i]
         IN  IF c = "\\" /\ i < Len(cmd)
             THEN split_words(cmd, i + 2, cur \o <<c, cmd[i + 1]>>, inq, acc)
             ELSE IF c = "\""
             THEN split_words(cmd, i + 1, Append(cur, c), ~inq, acc)
             ELSE IF c = " " /\ ~inq
             THEN split_words(cmd, i + 1, <<>>,  inq,
                              IF cur = <<>> THEN acc ELSE Append(acc, cur))
             ELSE split_words(cmd, i + 1, Append(cur, c), inq, acc)

MetaChars == {";", "|", "&", "(", ")", "<", ">", "$", "\"", "\\", " "}

IsQuotedText(t) ==
    /\ Len(t) >= 2
    /\ t[1] = "\""
    /\ t[Len(t)] = "\""
    /\ \A k \in 2..(Len(t) - 1) : t[k] \notin {"\"", "\\", "$"}

IsEscapedText(t) == Len(t) = 2 /\ t[1] = "\\"

IsPlainText(t) == t # <<>> /\ \A k \in 1..Len(t) : t[k] \notin MetaChars

Parseable(cmd) ==
    LET ws == split_words(cmd, 1, <<>>, FALSE, <<>>)
    IN  /\ ws # <<>>
        /\ \A k \in 1..Len(ws) :
               IsQuotedText(ws[k]) \/ IsEscapedText(ws[k]) \/ IsPlainText(ws[k])
        /\ ws[1] # <<"!">>

parse_word(t) ==
    IF IsQuotedText(t) THEN Quoted(SubSeq(t, 2, Len(t) - 1))
    ELSE IF IsEscapedText(t) THEN Escaped(<<t[2]>>)
    ELSE Word(t)

parse(cmd) ==
    LET ws == split_words(cmd, 1, <<>>, FALSE, <<>>)
    IN  Command([k \in 1..Len(ws) |-> parse_word(ws[k])])

\* normalize_ast(to_command(t)) on the tree t the first call returned: the
\* first tree is kept in out, and the normalizer starts over on the parse
\* of the rendered text.
Renormalize ==
    /\ result = "tree"
    /\ out = NoCall
    /\ LET r == to_command(nodes, 1, FALSE, FALSE)
           cmd == special_command_normalization(strip(r.text))
       IN  /\ r.exc = ""
           /\ cmd = <<>> \/ Parseable(cmd)
           /\ out' = [fn |-> "normalize_ast", tree |-> nodes, cmd |-> cmd]
           /\ nodes' = <<Node("root", <<>>, "")>>
           /\ frames' = <<>>
           /\ IF cmd = <<>>
              THEN result' = "None" /\ ast' = ast
              ELSE result' = "init" /\ ast' = parse(cmd)

NextRoundTrip == Next \/ Renormalize

MaxRoundTrip == 3

RoundTripHeads == {Word(wLs), Word(wFind)}

RoundTripWords ==
    {Word(wLa), Quoted(wLa), Word(wL), Word(wDashDash), Word(wX), Escaped(wLp),
     Escaped(wRp)}

RoundTripCommands ==
    {Command(<<h>> \o s) :
         h \in RoundTripHeads, s \in SeqsUpTo(RoundTripWords, MaxRoundTrip)}

SpecRoundTrip ==
    InitOn(Examples \cup RoundTripCommands) /\ [][NextRoundTrip]_vars

(***************************************************************************)
(* Chains of operands joined by binary operators under find: an operand is *)
(* a word, a flag or a parenthesized word.                                 *)
(***************************************************************************)
MaxChain == 3

ChainOperands ==
    {<<Word(wX)>>, <<Word(wPrint)>>, <<Escaped(wLp), Word(wX), Escaped(wRp)>>}

ChainOps == {Word(wO), Word(wA)}

RECURSIVE ChainParts(_, _)
ChainParts(operands, ops) ==
    IF Len(operands) = 1 THEN operands[1]
    ELSE operands[1] \o <<ops[1]>> \o ChainParts(Tail(operands), Tail(ops))

Chain(operands, ops) == Command(<<Word(wFind)>> \o ChainParts(operands, ops))

ChainCommands ==
    UNION {{Chain(operands, ops) :
                operands \in [1..k -> ChainOperands], ops \in [1..(k - 1) -> ChainOps]} :
           k \in 2..MaxChain}

SpecChain == InitOn(Examples \cup ChainCommands) /\ [][Next]_vars

(***************************************************************************)
(* find commands over operands, negations and binary operators.            *)
(***************************************************************************)
MaxNeg == 5

NegWords == {Word(wX), Word(wPrint), Word(wBang), Word(wO), Word(wA)}

NegCommands == {Command(<<Word(wFind)>> \o s) : s \in SeqsUpTo(NegWords, MaxNeg)}

SpecNeg == InitOn(Examples \cup NegCommands) /\ [][Next]_vars

(***************************************************************************)
(* Parenthesis matching over a words sequence, and the find commands over  *)
(* two operands and '!' whose parentheses are balanced and enclose         *)
(* something.                                                              *)
(***************************************************************************)
RECURSIVE MatchingClose(_, _, _)
MatchingClose(parts, q, depth) ==
    IF q > Len(parts) THEN 0
    ELSE IF parts[q].word = wLp THEN MatchingClose(parts, q + 1, depth + 1)
    ELSE IF parts[q].word = wRp
         THEN IF depth = 0 THEN q ELSE MatchingClose(parts, q + 1, depth - 1)
    ELSE MatchingClose(parts, q + 1, depth)

RECURSIVE MatchingOpen(_, _, _)
MatchingOpen(parts, q, depth) ==
    IF q < 1 THEN 0
    ELSE IF parts[q].word = wRp THEN MatchingOpen(parts, q - 1, depth + 1)
    ELSE IF parts[q].word = wLp
         THEN IF depth = 0 THEN q ELSE MatchingOpen(parts, q - 1, depth - 1)
    ELSE MatchingOpen(parts, q - 1, depth)

Balanced(parts) ==
    /\ \A q \in 1..Len(parts) :
           /\ parts[q].word = wLp => MatchingClose(parts, q + 1, 0) > q + 1
           /\ parts[q].word = wRp => MatchingOpen(parts, q - 1, 0) > 0

MaxNest == 7

NestWords == {Word(wX), Word(wDot), Word(wBang), Escaped(wLp), Escaped(wRp)}

NestCommands ==
    {c \in {Command(<<Word(wFind)>> \o w) : w \in SeqsUpTo(NestWords, MaxNest)} :
         Balanced(c.parts)}

SpecNest == InitOn(Examples \cup NestCommands) /\ [][Next]_vars

(***************************************************************************)
(* to_tokens on trees that break the arities: a pipeline of k commands,    *)
(* and a find command over one operator or substitution node with k        *)
(* arguments, for k from 0.                                                *)
(***************************************************************************)
MaxArity == 3

MkNode(kind, value, parent, children) ==
    [Node(kind, value, "") EXCEPT !.parent = parent, !.children = children]

PipelineOf(k) ==
    <<MkNode("root", <<>>, None, <<2>>),
      MkNode("pipeline", <<>>, 1, [j \in 1..k |-> j + 2])>>
    \o [j \in 1..k |-> MkNode("headcommand", wLs, 2, <<>>)]

OperatorOf(kind, value, k) ==
    <<MkNode("root", <<>>, None, <<2>>),
      MkNode("headcommand", wFind, 1, <<3>>),
      MkNode(kind, value, 2, [j \in 1..k |-> j + 3])>>
    \o [j \in 1..k |-> [MkNode("argument", wX, 3, <<>>) EXCEPT !.arg_type = "File"]]

ArityTrees ==
    {PipelineOf(k) : k \in 0..MaxArity}
    \cup {OperatorOf("binarylogicop", wOr, k) : k \in 0..MaxArity}
    \cup {OperatorOf("unarylogicop", wBang, k) : k \in 0..MaxArity}
    \cup {OperatorOf("commandsubstitution", <<>>, k) : k \in 0..MaxArity}
    \cup {OperatorOf("processsubstitution", <<"<">>, k) : k \in 0..MaxArity}

InitArity ==
    /\ nodes \in ArityTrees
    /\ ast = Command(<<>>)
    /\ frames = <<>>
    /\ result = "tree"
    /\ out = NoCall

SpecArity == InitArity /\ [][ToTokens]_vars

(***************************************************************************)
(* type_check on its own: every word of TypeWords against every set of     *)
(* possible types.                                                         *)
(***************************************************************************)
ArgTypes == {"File", "Pattern", "Utility", "Number", "Size", "Time"}

TypeWords ==
    {wPlus, wSemi, wBraces, w42, w5k, wD1, wMinus5, wX, wAB, wDot, wName, <<>>}

InitTypeCheck ==
    /\ \E w \in TypeWords, ts \in SUBSET ArgTypes :
           /\ ast = Word(w)
           /\ out = [fn |-> "type_check", word |-> w, possible_types |-> ts,
                     ret |-> "pending"]
    /\ nodes = <<Node("root", <<>>, "")>>
    /\ frames = <<>>
    /\ result = "init"

TypeCheck ==
    /\ out.fn = "type_check"
    /\ out.ret = "pending"
    /\ out' = [out EXCEPT !.ret = type_check(out.word, out.possible_types)]
    /\ UNCHANGED <<ast, nodes, frames, result>>

SpecTypeCheck == InitTypeCheck /\ [][TypeCheck]_vars

(***************************************************************************)
(* Properties.  InTree is the set of nodes of the tree normalize_ast       *)
(* returns (the arena also holds the nodes the passes have unlinked).      *)
(***************************************************************************)
RECURSIVE ReachFrom(_, _, _)
ReachFrom(T, S, n) ==
    LET S2 == S \cup UNION {{T[m].children[k] : k \in 1..Len(T[m].children)} : m \in S}
    IN  IF n = 0 \/ S2 = S THEN S ELSE ReachFrom(T, S2, n - 1)

InTree(T) == ReachFrom(T, {1}, Len(T))

Max(S) == CHOOSE x \in S : \A y \in S : y <= x

Returned == result = "tree"

Ended == result \notin {"init", "running"}

\* C1: in every tree normalize_ast returns, each child's lsb and rsb are its
\* neighbours in its parent's children sequence (None at the two ends).
SiblingLinksMirrorChildren ==
    Returned =>
        \A n \in InTree(nodes) :
            LET ch == nodes[n].children
            IN  \A k \in 1..Len(ch) :
                    /\ nodes[ch[k]].lsb = (IF k = 1 THEN None ELSE ch[k - 1])
                    /\ nodes[ch[k]].rsb = (IF k = Len(ch) THEN None ELSE ch[k + 1])

\* C2: in every tree normalize_ast returns, every binarylogicop node has at
\* least two children.
BinaryOpHasTwoChildren ==
    Returned =>
        \A n \in InTree(nodes) :
            nodes[n].kind = "binarylogicop" => Len(nodes[n].children) >= 2

\* C3: in every tree normalize_ast returns, every unarylogicop node has
\* exactly one child.
UnaryOpHasOneChild ==
    Returned =>
        \A n \in InTree(nodes) :
            nodes[n].kind = "unarylogicop" => Len(nodes[n].children) = 1

\* C4: a command whose first word is not a known head command never yields a
\* tree, and the root of a tree returned for a command has exactly one
\* child, a headcommand.
FirstWordIsHead ==
    /\ ast.parts # <<>>
    /\ ast.parts[1].kind = "word"
    /\ is_headcommand(ast.parts[1].word)
    /\ ~with_quotation(ast.parts[1])

MissingHeadCommandIsFatal ==
    (Returned /\ ast.kind = "command") =>
        /\ FirstWordIsHead
        /\ Len(nodes[1].children) = 1
        /\ nodes[nodes[1].children[1]].kind = "headcommand"

\* C5: in every tree normalize_ast returns, no node below a head command has
\* the value "(" or ")".
NoResidualParentheses ==
    Returned =>
        \A n \in InTree(nodes) :
            (nodes[n].kind # "headcommand" /\ getHeadCommand(nodes, n) # None)
                => nodes[n].value \notin {wLp, wRp}

\* C6: the parenthesis scan replaces a matched pair among the head command's
\* children, with what it encloses, by one node at the place of the pair:
\* the enclosed node itself when there is one, a new binarylogicop -and over
\* the enclosed nodes in their order when there are more; and
\* find . \( -name "*.c" -o -name "*.h" \) yields find[argument ., -or].
DesugarClosesGroup ==
    /\ InCommand("paren")
    /\ nodes[nodes[frames[top].head_commands[1]].children[frames[top].i]].value = wRp
    /\ result' = "running"

GroupReplaced ==
    LET f == frames[top]
        h == f.head_commands[1]
        ch == nodes[h].children
        r == f.i
        lps == {m \in 1..(r - 1) : nodes[ch[m]].value = wLp}
        l == Max(lps)
        enclosed == SubSeq(ch, l + 1, r - 1)
        ch2 == nodes'[h].children
        new == ch2[l]
    IN  /\ lps # {}
        /\ ch2 = SubSeq(ch, 1, l - 1) \o <<new>> \o SubSeq(ch, r + 1, Len(ch))
        /\ nodes'[new].parent = h
        /\ IF Len(enclosed) = 1 THEN new = enclosed[1]
           ELSE /\ new > Len(nodes)
                /\ nodes'[new].kind = "binarylogicop"
                /\ nodes'[new].value = wAnd
                /\ nodes'[new].children = enclosed
                /\ \A k \in 1..Len(enclosed) : nodes'[enclosed[k]].parent = new

ExampleCollapses ==
    (Returned /\ ast = ExFindParen) =>
        LET h == nodes[1].children[1]
            ch == nodes[h].children
        IN  /\ nodes[h].kind = "headcommand" /\ nodes[h].value = wFind
            /\ Len(ch) = 2
            /\ nodes[ch[1]].kind = "argument" /\ nodes[ch[1]].value = wDot
            /\ nodes[ch[2]].kind = "binarylogicop" /\ nodes[ch[2]].value = wOr
            /\ Len(nodes[ch[2]].children) = 2

ParenthesesCollapse ==
    [][DesugarClosesGroup => GroupReplaced]_vars /\ []ExampleCollapses

ParenthesesCollapsed ==
    /\ Returned
    /\ ast = ExDeferred
    /\ \E n \in InTree(nodes) :
           /\ nodes[n].kind = "binarylogicop" /\ nodes[n].value = wAnd
           /\ Len(nodes[n].children) = 2
    /\ \E n \in InTree(nodes) :
           /\ nodes[n].kind = "unarylogicop"
           /\ nodes[n].children # <<>>
           /\ nodes[nodes[n].children[1]].value = wX

\* C7 (as stated): a word -o / -a becomes a binarylogicop -or / -and whose two
\* children are its left and right siblings exactly when the nearest head
\* command is find; under another head command it is one flag node.
ScansBinaryWord ==
    /\ InCommand("scan")
    /\ frames[top].i <= Len(frames[top].parts)
    /\ frames[top].parts[frames[top].i].kind = "word"
    /\ frames[top].parts[frames[top].i].word \in {wO, wA}
    /\ result' = "running"

BinaryWordAttached ==
    LET f == frames[top]
        child == f.parts[f.i]
        h == getHeadCommand(nodes, f.attach_point)
        new == Len(nodes) + 1
    IN  /\ h # None
        /\ Len(nodes') = new
        /\ nodes'[new].parent = h
        /\ nodes'[new].children = <<>>
        /\ IF nodes[h].value = wFind
           THEN /\ nodes'[new].kind = "binarylogicop"
                /\ nodes'[new].value = (IF child.word = wO THEN wOr ELSE wAnd)
                /\ frames'[top].binary_logic_ops = Append(f.binary_logic_ops, new)
           ELSE /\ nodes'[new].kind = "flag"
                /\ nodes'[new].value \in {child.word, child.text}
                /\ frames'[top].binary_logic_ops = f.binary_logic_ops

RestructuresBinary ==
    /\ InCommand("binary") \/ InCommand("binary2")
    /\ result' = "running"
    /\ nodes' # nodes

FixedBinaryOp ==
    IF frames[top].pc = "binary"
    THEN frames[top].binary_logic_ops[frames[top].k]
    ELSE frames[top].unprocessed_binary_logic_ops[frames[top].k]

TakesBothSiblings ==
    nodes'[FixedBinaryOp].children
        = <<nodes[FixedBinaryOp].lsb, nodes[FixedBinaryOp].rsb>>

TakesSiblingsOrMerges ==
    LET node == FixedBinaryOp
        lsb == nodes[node].lsb
        rsb == nodes[node].rsb
    IN  nodes'[node].children =
            (IF nodes[lsb].kind = "binarylogicop" /\ nodes[lsb].value = nodes[node].value
             THEN nodes[lsb].children ELSE <<lsb>>) \o <<rsb>>

BinaryWordTwoChildren ==
    [][(ScansBinaryWord => BinaryWordAttached)
       /\ (RestructuresBinary => TakesBothSiblings)]_vars

\* C7 (amended): a word -o / -a is made a binarylogicop -or / -and exactly
\* when the nearest head command is find, and the binary fix-up gives the
\* node its left and right siblings as children, merging a left sibling that
\* is a binarylogicop of the same value; under another head command the word
\* is one flag node and no logic operator is made.
BinaryWordOnlyUnderFind ==
    [][(ScansBinaryWord => BinaryWordAttached)
       /\ (RestructuresBinary => TakesSiblingsOrMerges)]_vars

BinaryWordBothWays ==
    /\ Returned
    /\ \E n \in InTree(nodes) :
           /\ nodes[n].kind = "binarylogicop" /\ nodes[n].value = wOr
           /\ Len(nodes[n].children) = 3
           /\ nodes[nodes[n].parent].value = wFind

\* C8: under a head command other than find, a single-dash word '-c1...cn'
\* (n >= 2) that is no logic operator becomes n flag nodes '-c1' .. '-cn' in
\* that order and the last of them is the attach point; every other flag word
\* becomes exactly one flag node.
ScansFlagWord ==
    /\ InCommand("scan")
    /\ frames[top].i <= Len(frames[top].parts)
    /\ frames[top].parts[frames[top].i].kind = "word"
    /\ StartsWithDash(frames[top].parts[frames[top].i].word)
    /\ frames[top].parts[frames[top].i].word
           \notin {wDashDash} \cup unary_logic_operators \cup binary_logic_operators
    /\ ~frames[top].END_OF_OPTIONS
    /\ getHeadCommand(nodes, frames[top].attach_point) # None
    /\ result' = "running"

FlagWordAttached ==
    LET f == frames[top]
        w == f.parts[f.i].word
        n == Len(w) - 1
        h == getHeadCommand(nodes, f.attach_point)
        k0 == Len(nodes)
    IN  IF n >= 2 /\ ~is_double_option(w) /\ nodes[h].value # wFind
        THEN /\ Len(nodes') = k0 + n
             /\ \A m \in 1..n :
                    /\ nodes'[k0 + m].kind = "flag"
                    /\ nodes'[k0 + m].value = <<"-", w[m + 1]>>
                    /\ nodes'[k0 + m].parent = h
             /\ nodes'[h].children = nodes[h].children \o [m \in 1..n |-> k0 + m]
             /\ frames'[top].attach_point = k0 + n
        ELSE /\ Len(nodes') = k0 + 1
             /\ nodes'[k0 + 1].kind = "flag"
             /\ frames'[top].attach_point = k0 + 1

ClusteredFlagsSplit ==
    [][ScansFlagWord => FlagWordAttached]_vars

\* C9 (as stated): when -exec, -execdir, -ok or -okdir is followed by a
\* terminator, the words up to the first terminator are normalized as a
\* command under the flag, whose value becomes '<flag>::<terminator>' and
\* which has exactly one child, the sub-command's head command; the words
\* after the terminator attach under the outer head command.
ExecReturns ==
    /\ InCommand("final")
    /\ frames[top].ret = "exec_term"
    /\ result' = "running"

ExecEmbedded ==
    LET caller == frames[top - 1]
        flag == caller.attach_point
        term == caller.parts[caller.j].word
        sub == frames[top].head_commands[1]
        ch == nodes'[flag].children
    IN  /\ nodes[flag].kind = "flag"
        /\ nodes[flag].value \in exec_flags
        /\ term \in {wSemi, wPlus}
        /\ \A m \in caller.i..(caller.j - 1) :
               caller.parts[m].word \notin {wSemi, wPlus}
        /\ nodes'[flag].value = nodes[flag].value \o <<":", ":">> \o term
        /\ ch # <<>>
        /\ ch[Len(ch)] = sub
        /\ nodes'[sub].kind = "headcommand"
        /\ nodes'[sub].parent = flag
        /\ nodes'[nodes[flag].parent].kind = "headcommand"
        /\ frames'[top - 1].attach_point = nodes[flag].parent
        /\ frames'[top - 1].i = caller.j + 1

ExecFlagOneChild ==
    [][ExecReturns =>
          /\ ExecEmbedded
          /\ Len(nodes'[frames[top - 1].attach_point].children) = 1]_vars

\* C9 (amended): the words between an exec flag and the first terminator are
\* normalized as a command whose head command becomes the last child of the
\* flag, after the argument the flag already took if it took one; the flag's
\* value becomes '<flag>::<terminator>' and the words after the terminator
\* attach under the outer head command.
ExecFlagLastChild ==
    [][ExecReturns =>
          /\ ExecEmbedded
          /\ \A m \in 1..(Len(nodes'[frames[top - 1].attach_point].children) - 1) :
                 nodes'[nodes'[frames[top - 1].attach_point].children[m]].kind
                     = "argument"]_vars

ExecSubcommandEmbedded ==
    /\ Returned
    /\ \E n \in InTree(nodes) :
           /\ nodes[n].kind = "flag"
           /\ nodes[n].value = wExec \o <<":", ":">> \o wSemi
           /\ Len(nodes[n].children) = 1
           /\ nodes[nodes[n].children[1]].kind = "headcommand"
           /\ nodes[n].rsb # None
           /\ nodes[nodes[n].rsb].kind = "argument"
           /\ nodes[nodes[n].rsb].parent = nodes[n].parent

\* C10: a pipeline whose parts list has even length makes normalize_ast
\* return None.
EvenPipelineReturnsNone ==
    (ast.kind = "pipeline" /\ Len(ast.parts) % 2 = 0 /\ Ended) => result = "None"

\* C11: a command whose parentheses are unbalanced, by a surplus '(' or by a
\* surplus ')', makes normalize_ast return None and nothing else.
ParenthesisCount(parts, k, w) ==
    Cardinality({m \in 1..k : parts[m].kind = "word" /\ parts[m].word = w})

Unbalanced(parts) ==
    \/ ParenthesisCount(parts, Len(parts), wLp) # ParenthesisCount(parts, Len(parts), wRp)
    \/ \E k \in 1..Len(parts) :
           ParenthesisCount(parts, k, wRp) > ParenthesisCount(parts, k, wLp)

UnbalancedParenthesesReturnNone ==
    (ast.kind = "command" /\ Unbalanced(ast.parts) /\ Ended) => result = "None"

\* C12: a syntax tree that holds a node of an unsupported kind, with or
\* without a parts sequence, makes normalize_ast return None.
RECURSIVE ContainsUnsupported(_)
ContainsUnsupported(n) ==
    \/ n.kind \in unsupported_kinds
    \/ \E k \in 1..Len(n.parts) : ContainsUnsupported(n.parts[k])
    \/ n.kind = "commandsubstitution" /\ ContainsUnsupported(n.command)

UnsupportedKindsRejected ==
    (ContainsUnsupported(ast) /\ Ended) => result = "None"

\* C13: once '--' has been scanned in a command, every later word of that
\* command that starts with a dash is attached as an argument node, never as
\* a flag node (stated for the words other than a second '--').
ScansDashWordAfterEnd ==
    /\ InCommand("scan")
    /\ frames[top].i <= Len(frames[top].parts)
    /\ frames[top].parts[frames[top].i].kind = "word"
    /\ StartsWithDash(frames[top].parts[frames[top].i].word)
    /\ frames[top].parts[frames[top].i].word # wDashDash
    /\ frames[top].END_OF_OPTIONS
    /\ result' = "running"

DashWordsAfterEndAreArguments ==
    [][ScansDashWordAfterEnd =>
          /\ Len(nodes') = Len(nodes) + 1
          /\ nodes'[Len(nodes')].kind = "argument"]_vars

\* C14: type_check(word, possible_types) is the five-rule heuristic for every
\* word and every set of possible types: ReservedWord for '+', ';', '{}';
\* Number for an all-digit word when Number is possible; Size / Time for a
\* word with a digit that ends in a unit letter when that type is possible;
\* otherwise the first possible of File, Pattern, Utility; otherwise an error.
FiveRules(word, possible_types) ==
    IF word \in {wPlus, wSemi, wBraces} THEN "ReservedWord"
    ELSE IF IsDigitWord(word) /\ "Number" \in possible_types THEN "Number"
    ELSE IF /\ HasDigit(word)
            /\ word[Len(word)] \in {"k", "M", "G", "T", "P"}
            /\ "Size" \in possible_types
    THEN "Size"
    ELSE IF /\ HasDigit(word)
            /\ word[Len(word)] \in {"s", "m", "h", "d", "w"}
            /\ "Time" \in possible_types
    THEN "Time"
    ELSE IF "File" \in possible_types THEN "File"
    ELSE IF "Pattern" \in possible_types THEN "Pattern"
    ELSE IF "Utility" \in possible_types THEN "Utility"
    ELSE "ValueError"

TypeCheckIsFiveRules ==
    (out.fn = "type_check" /\ out.ret # "pending") =>
        out.ret = FiveRules(out.word, out.possible_types)

RoundTripIdempotent ==
    (out.fn = "normalize_ast" /\ Ended) =>
        /\ result = "tree"
        /\ to_list(nodes, 1, <<>>) = to_list(out.tree, 1, <<>>)

\* C17: rendering with lexical flag order moves only a head command's direct
\* flag children: the tokens are those of the tree in which, under every
\* head command, the flag children are sorted by value among the positions
\* flags held and every other child stays where it was.
IsFlag(T, c) == T[c].kind = "flag"

FlagsUpTo(T, cs, k) == Cardinality({j \in 1..k : IsFlag(T, cs[j])})

FlagsSortedInPlace(T, cs) ==
    LET flags == sorted(T, SelectSeq(cs, LAMBDA c : IsFlag(T, c)))
    IN  [k \in 1..Len(cs) |->
            IF IsFlag(T, cs[k]) THEN flags[FlagsUpTo(T, cs, k)] ELSE cs[k]]

OnlyFlagsReordered(T) ==
    [n \in 1..Len(T) |->
        IF T[n].kind = "headcommand"
        THEN [T[n] EXCEPT !.children = FlagsSortedInPlace(T, @)]
        ELSE T[n]]

LexicalOrderMovesOnlyFlags ==
    (out.fn = "to_tokens" /\ out.ignore_flag_order) =>
        out.ret = to_tokens(OnlyFlagsReordered(nodes), 1, out.loose_constraints,
                            FALSE, out.arg_type_only)

\* C18: two trees that differ only in the order of a head command's direct
\* flag children render to the same tokens under lexical flag order:
\* exchanging any two flag children of a head command of the returned tree
\* leaves the rendering unchanged.
Exchange(cs, i, j) == [cs EXCEPT ![i] = cs[j], ![j] = cs[i]]

FlagsExchanged(T, h, i, j) == [T EXCEPT ![h].children = Exchange(@, i, j)]

FlagPairs(T, h) ==
    {p \in (1..Len(T[h].children)) \X (1..Len(T[h].children)) :
         /\ p[1] < p[2]
         /\ IsFlag(T, T[h].children[p[1]])
         /\ IsFlag(T, T[h].children[p[2]])}

LexicalOrderIsCanonical ==
    (out.fn = "to_tokens" /\ out.ignore_flag_order) =>
        \A h \in InTree(nodes) :
            nodes[h].kind = "headcommand" =>
                \A p \in FlagPairs(nodes, h) :
                    to_tokens(FlagsExchanged(nodes, h, p[1], p[2]), 1,
                              out.loose_constraints, TRUE, out.arg_type_only)
                        = out.ret

\* C19: to_list emits the nodes' symbols in depth-first pre-order and one
\* <NO_EXPAND> per node, leaves included, after the node's children: a tree
\* of N nodes gives 2N symbols, every proper prefix holds more node symbols
\* than terminators, and the whole list holds as many of one as of the other.
RECURSIVE PreOrder(_, _)
RECURSIVE PreOrderAll(_, _)
PreOrderAll(T, cs) ==
    IF cs = <<>> THEN <<>>
    ELSE PreOrder(T, Head(cs)) \o PreOrderAll(T, Tail(cs))

PreOrder(T, n) == <<n>> \o PreOrderAll(T, T[n].children)

Terminators(list, k) == Cardinality({j \in 1..k : list[j] = NO_EXPAND})

NodeSymbols(list, k) == k - Terminators(list, k)

ToListShape ==
    out.fn = "to_list" =>
        LET list == out.list
            order == PreOrder(nodes, 1)
        IN  /\ Len(list) = 2 * Cardinality(InTree(nodes))
            /\ SelectSeq(list, LAMBDA x : x # NO_EXPAND)
                   = [k \in 1..Len(order) |-> symbol(nodes, order[k])]
            /\ \A k \in 1..(Len(list) - 1) :
                   NodeSymbols(list, k) > Terminators(list, k)
            /\ NodeSymbols(list, Len(list)) = Terminators(list, Len(list))

ToListOfFindExec ==
    /\ out.fn = "to_list"
    /\ ast = ExFindExec
    /\ Len(out.list) = 12
    /\ out.list[11] = NO_EXPAND
    /\ out.list[12] = NO_EXPAND

\* C20: a chain of k >= 2 operands joined by one binary operator becomes a
\* single binarylogicop node with the k operands as children, in order, each
\* with that node as parent; three operands joined by two different
\* operators nest, the earlier operator's node being the first child of the
\* later one's.
OperandValue(operand) ==
    IF Len(operand) = 1 THEN operand[1].word ELSE operand[2].word

OperatorValue(op) == IF op = Word(wO) THEN wOr ELSE wAnd

IsOperatorOver(T, b, op, values) ==
    /\ T[b].kind = "binarylogicop"
    /\ T[b].value = OperatorValue(op)
    /\ Len(T[b].children) = Len(values)
    /\ \A j \in 1..Len(values) :
           /\ T[T[b].children[j]].parent = b
           /\ values[j] # <<>> => T[T[b].children[j]].value = values[j]

OnlyChildOfHead(T) == T[T[1].children[1]].children[1]

HeadHasOneChild(T) ==
    /\ Len(T[1].children) = 1
    /\ Len(T[T[1].children[1]].children) = 1

BinaryChainsFlattenOrNest ==
    /\ \A k \in 2..MaxChain :
           \A operands \in [1..k -> ChainOperands], op \in ChainOps :
               (ast = Chain(operands, [j \in 1..(k - 1) |-> op]) /\ Ended) =>
                   /\ result = "tree"
                   /\ HeadHasOneChild(nodes)
                   /\ IsOperatorOver(nodes, OnlyChildOfHead(nodes), op,
                                     [j \in 1..k |-> OperandValue(operands[j])])
    /\ \A operands \in [1..3 -> ChainOperands], op1 \in ChainOps, op2 \in ChainOps :
           (op1 # op2 /\ ast = Chain(operands, <<op1, op2>>) /\ Ended) =>
               /\ result = "tree"
               /\ HeadHasOneChild(nodes)
               /\ IsOperatorOver(nodes, OnlyChildOfHead(nodes), op2,
                                 <<<<>>, OperandValue(operands[3])>>)
               /\ IsOperatorOver(nodes, nodes[OnlyChildOfHead(nodes)].children[1],
                                 op1, <<OperandValue(operands[1]),
                                        OperandValue(operands[2])>>)

\* C21: in a returned tree, an argument that follows a flag without
\* children (the word went to the head command because the flag takes no
\* argument) carries an arg_type that is one of the grammar's type tags.
GrammarTypeTags ==
    {"File", "Pattern", "Number", "Size", "Time", "PermissionMode", "UserName",
     "GroupName", "Utility", "Unknown", "ReservedWord"}

FollowsBareFlag(T, n) ==
    /\ T[n].kind = "argument"
    /\ T[n].lsb # None
    /\ T[T[n].lsb].kind = "flag"
    /\ T[T[n].lsb].children = <<>>

ArgumentsCarryTypeTag ==
    Returned =>
        \A n \in InTree(nodes) :
            FollowsBareFlag(nodes, n) => nodes[n].arg_type \in GrammarTypeTags

\* C22: in a returned tree of a find command, a logic operator written next
\* to a parenthesized group has the whole group as operand: a unary operator
\* before '(' has one child and that child's subtree holds exactly the
\* group's words; a binary operator before '(' or after ')' has a child
\* whose subtree holds exactly the group's words.  (The scan of these
\* commands creates the node p + 1 for the word at index p.)
\* the nodes of the words at the indices from..to that are no parentheses
GroupWords(parts, from, to) ==
    {q + 1 : q \in {r \in from..to : parts[r].word \notin {wLp, wRp}}}

\* the scanned words' nodes in the subtree of c
Covers(T, parts, c) ==
    {n \in ReachFrom(T, {c}, Len(T)) :
         n <= Len(parts) + 1 /\ T[n].value \notin {wLp, wRp}}

FindOverWords ==
    /\ ast.kind = "command"
    /\ Len(ast.parts) >= 1
    /\ \A q \in 1..Len(ast.parts) : ast.parts[q].kind = "word"
    /\ ast.parts[1].word = wFind
    /\ \A q \in 2..Len(ast.parts) :
           ast.parts[q].word \in {wX, wBang, wO, wLp, wRp}
    /\ Balanced(ast.parts)

OperatorsTakeWholeGroup ==
    (Returned /\ FindOverWords) =>
        \A p \in 2..(Len(ast.parts) - 1) :
            LET parts == ast.parts
                close == MatchingClose(parts, p + 2, 0)
                open == MatchingOpen(parts, p - 2, 0)
            IN  /\ (parts[p].word = wBang /\ parts[p + 1].word = wLp) =>
                       /\ Len(nodes[p + 1].children) = 1
                       /\ Covers(nodes, parts, nodes[p + 1].children[1])
                              = GroupWords(parts, p + 2, close - 1)
                /\ (parts[p].word = wO /\ parts[p + 1].word = wLp) =>
                       \E k \in 1..Len(nodes[p + 1].children) :
                           Covers(nodes, parts, nodes[p + 1].children[k])
                               = GroupWords(parts, p + 2, close - 1)
                /\ (parts[p].word = wO /\ parts[p - 1].word = wRp) =>
                       \E k \in 1..Len(nodes[p + 1].children) :
                           Covers(nodes, parts, nodes[p + 1].children[k])
                               = GroupWords(parts, open + 1, p - 2)

\* C23: the unary fix-ups run before any binary fix-up: while the loop over
\* the recorded unary operators runs, no recorded binary operator has
\* children; and for 'A op ! B' in a find command the returned tree has the
\* node of '!' with B as its sole child, under the binarylogicop of op, as
\* that operator's right child.  (The scan of these commands creates the
\* node p + 1 for the word at index p.)
IsNegatedOperand(parts, p) ==
    /\ p >= 3
    /\ p + 2 <= Len(parts)
    /\ parts[p - 1].word \in {wX, wPrint}
    /\ parts[p].word \in {wO, wA}
    /\ parts[p + 1].word = wBang
    /\ parts[p + 2].word \in {wX, wPrint}

NegationBindsTighter ==
    /\ \A fi \in 1..Len(frames) :
           (frames[fi].fn = "normalize_command" /\ frames[fi].pc = "unary") =>
               \A k \in 1..Len(frames[fi].binary_logic_ops) :
                   nodes[frames[fi].binary_logic_ops[k]].children = <<>>
    /\ (Returned /\ ast \in NegCommands) =>
           \A p \in 1..Len(ast.parts) :
               IsNegatedOperand(ast.parts, p) =>
                   LET bang == p + 2
                       b == nodes[bang].parent
                   IN  /\ nodes[bang].kind = "unarylogicop"
                       /\ nodes[bang].children = <<p + 3>>
                       /\ nodes[p + 3].parent = bang
                       /\ b \in InTree(nodes)
                       /\ nodes[b].kind = "binarylogicop"
                       /\ nodes[b].value = OperatorValue(ast.parts[p])
                       /\ \E k \in 2..Len(nodes[b].children) :
                              nodes[b].children[k] = bang
                       /\ p + 1 \in InTree(nodes) =>
                              nodes[p + 1].children[Len(nodes[p + 1].children)] = bang

NegatedOperandUnderOr ==
    /\ Returned
    /\ ast = Command(<<Word(wFind), Word(wX), Word(wO), Word(wBang), Word(wPrint)>>)
    /\ nodes[2].children = <<4>>
    /\ nodes[4].children = <<3, 5>>
    /\ nodes[5].children = <<6>>

\* C24: for a find command whose parentheses are balanced and enclose
\* something, the stack is empty and depth is zero when the parenthesis
\* scan and the deferred fix-ups are over; and when the words are operands
\* and parentheses only, the returned tree is the nesting of the groups: a
\* group of two or more members is one -and node over its members in
\* order, an inner group being a single member of the group around it, and
\* a group of one member is that member.
RECURSIVE Members(_, _, _)
Members(parts, from, to) ==
    IF from > to THEN 0
    ELSE IF parts[from].word = wLp
         THEN 1 + Members(parts, MatchingClose(parts, from + 1, 0) + 1, to)
         ELSE 1 + Members(parts, from + 1, to)

RECURSIVE GroupList(_, _, _)
GroupList(parts, from, to) ==
    IF from > to THEN <<>>
    ELSE IF parts[from].word = wLp THEN
        LET close == MatchingClose(parts, from + 1, 0)
            inner == GroupList(parts, from + 1, close - 1)
        IN  (IF Members(parts, from + 1, close - 1) >= 2
             THEN <<upper("binarylogicop") \o <<"_">> \o wAnd>> \o inner
                      \o <<NO_EXPAND>>
             ELSE inner)
            \o GroupList(parts, close + 1, to)
    ELSE <<upper("argument") \o <<"_">> \o parts[from].word, NO_EXPAND>>
             \o GroupList(parts, from + 1, to)

IsNestCommand ==
    /\ ast.kind = "command"
    /\ Len(ast.parts) >= 1
    /\ ast.parts[1] = Word(wFind)
    /\ \A q \in 2..Len(ast.parts) : ast.parts[q] \in NestWords
    /\ Balanced(ast.parts)

NestedGroupsDesugar ==
    IsNestCommand =>
        /\ \A fi \in 1..Len(frames) :
               (frames[fi].fn = "normalize_command" /\ frames[fi].pc = "final") =>
                   frames[fi].stack = <<>> /\ frames[fi].depth = 0
        /\ (Ended /\ \A q \in 1..Len(ast.parts) : ast.parts[q].word # wBang) =>
               /\ result = "tree"
               /\ to_list(nodes, 1, <<>>)
                      = <<upper("root") \o <<"_">>,
                          upper("headcommand") \o <<"_">> \o wFind>>
                        \o GroupList(ast.parts, 2, Len(ast.parts))
                        \o <<NO_EXPAND, NO_EXPAND>>

\* C25: when a find command has a flag -exec, -execdir, -ok or -okdir
\* followed by a utility and no ';' or '+' after it (every such flag before
\* it being followed by a utility and, later, by its terminator),
\* normalize_ast returns a tree in which the
\* flag's first child is the utility's head command and its last child the
\* terminator the code adds (the argument \;), and the strict rendering of
\* the flag begins with the flag and the utility and ends with that
\* terminator.
MissingTerminator(parts, p) ==
    /\ p >= 2
    /\ p < Len(parts)
    /\ parts[p].word \in exec_flags
    /\ is_headcommand(parts[p + 1].word)
    /\ \A q \in (p + 1)..Len(parts) :
           /\ parts[q].word \notin {wSemi, wPlus}
           /\ q > p + 1 => parts[q].word \notin exec_flags
    /\ \A q \in 2..(p - 1) :
           parts[q].word \in exec_flags =>
               /\ is_headcommand(parts[q + 1].word)
               /\ \E t \in (q + 2)..(p - 1) : parts[t].word \in {wSemi, wPlus}

EndsWithAddedTerminator(T, flag, parts, p) ==
    LET r == to_tokens_fun(T, flag, FALSE, FALSE, FALSE)
        last == T[flag].children[Len(T[flag].children)]
    IN  /\ T[flag].kind = "flag"
        /\ T[flag].value = parts[p].word
        /\ Len(T[flag].children) >= 2
        /\ T[T[flag].children[1]].kind = "headcommand"
        /\ T[T[flag].children[1]].value = parts[p + 1].word
        /\ T[last].kind = "argument"
        /\ T[last].value = <<"\\", ";">>
        /\ r.exc = ""
        /\ SubSeq(r.tokens, 1, 2) = <<parts[p].word, parts[p + 1].word>>
        /\ r.tokens[Len(r.tokens)] = <<"\\", ";">>

LooseTokens(T, n) ==
    to_tokens_fun(T, n, TRUE, out.ignore_flag_order, out.arg_type_only).tokens

LooseModeDegrades ==
    (out.fn = "to_tokens" /\ out.loose_constraints) =>
        /\ out.ret.exc = ""
        /\ \A n \in InTree(nodes) :
               LET kind == nodes[n].kind
                   ch == nodes[n].children
               IN  /\ (kind = "pipeline" /\ Len(ch) = 1) =>
                          LooseTokens(nodes, n) = LooseTokens(nodes, ch[1])
                   /\ (kind = "binarylogicop" /\ Len(ch) = 1) =>
                          LooseTokens(nodes, n) = LooseTokens(nodes, ch[1])
                   /\ (kind = "binarylogicop" /\ Len(ch) = 0) =>
                          LooseTokens(nodes, n) = <<>>
                   /\ (kind = "unarylogicop" /\ Len(ch) = 0) =>
                          LooseTokens(nodes, n) = <<nodes[n].value>>
                   /\ (kind = "commandsubstitution" /\ Len(ch) = 0) =>
                          LooseTokens(nodes, n) = <<<<"$", "(">>, <<")">>>>
                   /\ (kind = "processsubstitution" /\ Len(ch) = 0) =>
                          LooseTokens(nodes, n)
                              = <<nodes[n].value \o <<"(">>, <<")">>>>

LonePipelineRendered ==
    /\ out.fn = "to_tokens"
    /\ out.loose_constraints
    /\ nodes = PipelineOf(1)
    /\ out.ret = Tokens(<<wLs>>)

\* C27: a returned tree is a tree: every node other than the root occurs
\* once, in the children of one node, that node is its parent, and no node
\* is among its own descendants.
Occurrences(T, n) ==
    {mk \in InTree(T) \X (1..Len(T)) :
         mk[2] <= Len(T[mk[1]].children) /\ T[mk[1]].children[mk[2]] = n}

Descendants(T, n) ==
    ReachFrom(T, {T[n].children[k] : k \in 1..Len(T[n].children)}, Len(T))

IsOperand(T, n) ==
    T[n].kind \in {"flag", "argument"} /\ T[n].value \notin {wLp, wRp}

OperandsInPreOrder(T) == SelectSeq(PreOrder(T, 1), LAMBDA n : IsOperand(T, n))

PassStep ==
    /\ result = "running"
    /\ frames # <<>>
    /\ frames[top].fn = "normalize_command"
    /\ frames[top].pc \in {"unary", "binary", "paren", "unary2", "binary2"}

PassesKeepOperands ==
    [][(PassStep /\ result' = "running") =>
           OperandsInPreOrder(nodes') = OperandsInPreOrder(nodes)]_vars

DeferredOperandsInOrder ==
    /\ Returned
    /\ ast = ExDeferred
    /\ OperandsInPreOrder(nodes) = <<5, 9, 10>>

OperandsKeepScanOrder ==
    Returned =>
        LET operands == OperandsInPreOrder(nodes)
        IN  /\ \A k \in 1..(Len(operands) - 1) : operands[k] < operands[k + 1]
            /\ {operands[k] : k \in 1..Len(operands)}
                   = {n \in 1..Len(nodes) : IsOperand(nodes, n)}

\* C29: during one normalize_command scan at most one head command is
\* recorded, and it is the headcommand node made from the word at index 0 of
\* that scan's parts; head-command words met later start a scan of their own
\* or become arguments, so no scan ever holds two head commands.
CommandFrames == {fi \in 1..Len(frames) : frames[fi].fn = "normalize_command"}

AtMostOneHeadCommand ==
    \A fi \in CommandFrames :
        LET f == frames[fi]
        IN  /\ Len(f.head_commands) <= 1
            /\ Len(f.head_commands) = 1 =>
                   /\ nodes[f.head_commands[1]].kind = "headcommand"
                   /\ nodes[f.head_commands[1]].value = f.parts[1].word

EmbeddedHeadScannedApart ==
    /\ result = "running"
    /\ \E fi, fj \in CommandFrames :
           /\ fi < fj
           /\ Len(frames[fi].head_commands) = 1
           /\ Len(frames[fj].head_commands) = 1
           /\ frames[fi].head_commands[1] # frames[fj].head_commands[1]
           /\ frames[fj].i > 1

\* C30: normalize_command terminates on every finite parts sequence: each of
\* its loops (the scan over the parts, the loops over the unary and the
\* binary operators, the parenthesis scan over the head command's children,
\* and the loops over the deferred operators) has, after every iteration,
\* strictly fewer positions left before the end of the sequence it runs over.
Remaining(T, f) ==
    CASE f.pc = "scan" -> Len(f.parts) + 1 - f.i
      [] f.pc = "unary" -> Len(f.unary_logic_ops) + 1 - f.k
      [] f.pc = "binary" -> Len(f.binary_logic_ops) + 1 - f.k
      [] f.pc = "paren" -> getNumChildren(T, f.head_commands[1]) + 1 - f.i
      [] f.pc = "unary2" -> Len(f.unprocessed_unary_logic_ops) + 1 - f.k
      [] f.pc = "binary2" -> Len(f.unprocessed_binary_logic_ops) + 1 - f.k
      [] OTHER -> 0

SameLoop ==
    /\ result = "running" /\ result' = "running"
    /\ Len(frames') = Len(frames)
    /\ frames # <<>>
    /\ frames[top].fn = "normalize_command"
    /\ frames'[top].fn = "normalize_command"
    /\ frames'[top].pc = frames[top].pc

EveryLoopAdvances ==
    [][SameLoop => Remaining(nodes', frames'[top]) < Remaining(nodes, frames[top])]_vars

====
